---------------------------- MODULE Spec2Model ----------------------------
(***************************************************************************)
(* A model of scripts/agent/common.py: the CLI reviewer abstraction        *)
(* (Reviewer.run and its fallback chain, Reviewer._execute and its polling *)
(* loop), the activity probes that classify streamed JSON lines, and the   *)
(* extraction of the final answer from the captured output.                *)
(*                                                                         *)
(* Text.  A file is a sequence of bytes and a Python str a sequence of     *)
(* characters; both are sequences of one-element strings here.  The byte   *)
(* alphabet has the ASCII bytes the code looks at ("{", "}", "\n", "\r",   *)
(* " ", letters), the two bytes "C2" "85" of the UTF-8 encoding of U+0085  *)
(* (NEL, a line boundary of str.splitlines) and one byte-like atom per     *)
(* JSON object shape (see JsonObject): the atom stands for the text of the *)
(* object between its opening brace and the payload string it may carry.   *)
(*                                                                         *)
(* Time.  One tick is 0.1 s, the smallest duration the code names.         *)
(***************************************************************************)
EXTENDS Integers, Sequences, FiniteSets, TLC

\* ------------------------------------------------------------------ bounds
\* The number of reviewer configurations.
NumConfigs == 3
\* The monitoring clock is not advanced past this many ticks by the polling wait.
MaxTime == 260
\* The sampling of one iteration of the polling loop takes at most this many
\* ticks.
MaxLag == 9
\* No time passes outside the waits once the clock has reached this many
\* ticks.
MaxLagTime == 70
\* The most review cycles.
MaxCycles == 2
\* The most attempts of one call of run: each attempt after the first is made
\* by a call of run from inside the run before it, and the interpreter
\* refuses the call that would nest deeper than its recursion limit (some
\* thousand frames in CPython, a few here) by raising RecursionError.
MaxAttempts == 4
\* The most lines of a captured output given to the extractors.
MaxLines == 3
\* The longest byte stream a probe is fed, in as many reads as it has bytes
\* at most.
MaxStream == 6
\* The most files at fault under a root that is validated.
MaxFaults == 2

\* ------------------------------------------------------- program constants
\* POLL_INTERVAL = 5.0 seconds, in ticks.
POLL_INTERVAL == 50
\* max(0.1, next_heartbeat - now): the shortest heartbeat sleep, in ticks.
HEARTBEAT_MIN_SLEEP == 1
\* proc.wait(timeout=5) in _terminate_process, in ticks.
TERMINATE_GRACE == 50

\* ------------------------------------------------------------ plain helpers
Min(a, b) == IF a <= b THEN a ELSE b
Max(a, b) == IF a >= b THEN a ELSE b
\* s[i..], the Python slice s[i-1:].
From(s, i) == SubSeq(s, i, Len(s))

RECURSIVE Concat(_)
\* "".join(parts)
Concat(parts) ==
  IF parts = <<>> THEN <<>> ELSE Head(parts) \o Concat(Tail(parts))

\* needle in hay (Python's substring test).
Contains(hay, needle) ==
  \E i \in 1..(Len(hay) - Len(needle) + 1) :
    SubSeq(hay, i, i + Len(needle) - 1) = needle

\* ------------------------------------------------------------------ decoding
\* bytes.decode("utf-8", errors="replace") on this alphabet: "C2" "85" is
\* U+0085; a lead byte without its continuation byte, and a continuation byte
\* without its lead byte, each become U+FFFD.
RECURSIVE Decode(_)
Decode(bs) ==
  IF bs = <<>> THEN <<>>
  ELSE IF bs[1] = "C2"
    THEN IF Len(bs) >= 2 /\ bs[2] = "85"
           THEN <<"NEL">> \o Decode(From(bs, 3))
           ELSE <<"FFFD">> \o Decode(Tail(bs))
  ELSE IF bs[1] = "85" THEN <<"FFFD">> \o Decode(Tail(bs))
  ELSE <<bs[1]>> \o Decode(Tail(bs))

\* Text-mode reading with newline=None (the default of open() and read_text()):
\* "\r\n" and a lone "\r" are read as "\n".
RECURSIVE TranslateNewlines(_)
TranslateNewlines(cs) ==
  IF cs = <<>> THEN <<>>
  ELSE IF cs[1] = "\r"
    THEN <<"\n">> \o TranslateNewlines(
           IF Len(cs) >= 2 /\ cs[2] = "\n" THEN From(cs, 3) ELSE Tail(cs))
  ELSE <<cs[1]>> \o TranslateNewlines(Tail(cs))

\* What reading bytes bs in text mode yields.
ReadText(bs) == TranslateNewlines(Decode(bs))

\* ------------------------------------------------------------------- lines
\* The line boundaries of str.splitlines that the alphabet has.
LineBoundaries == {"\n", "\r", "NEL"}
\* The characters str.strip removes.
Whitespace == {" ", "\n", "\r", "NEL"}

RECURSIVE SplitFrom(_, _)
SplitFrom(text, cur) ==
  IF text = <<>> THEN (IF cur = <<>> THEN <<>> ELSE <<cur>>)
  ELSE IF text[1] = "\r" /\ Len(text) >= 2 /\ text[2] = "\n"
    THEN <<cur \o <<"\r", "\n">>>> \o SplitFrom(From(text, 3), <<>>)
  ELSE IF text[1] \in LineBoundaries
    THEN <<Append(cur, text[1])>> \o SplitFrom(Tail(text), <<>>)
  ELSE SplitFrom(Tail(text), Append(cur, text[1]))

\* text.splitlines(keepends=True)
SplitLinesKeepEnds(text) == SplitFrom(text, <<>>)

RECURSIVE LStrip(_)
LStrip(s) == IF s # <<>> /\ s[1] \in Whitespace THEN LStrip(Tail(s)) ELSE s
RECURSIVE RStrip(_)
RStrip(s) ==
  IF s # <<>> /\ s[Len(s)] \in Whitespace
    THEN RStrip(SubSeq(s, 1, Len(s) - 1)) ELSE s
\* line.strip()
Strip(s) == RStrip(LStrip(s))

\* -------------------------------------------------------------- JSON lines
\* A value that is missing from an object or is not a string.
Absent == "<absent>"

\* One element of message.content.
Block(type, text_is_str, text) ==
  [type |-> type, text_is_str |-> text_is_str, text |-> text]

\* The fields of a parsed object that the code reads.
Object(ty, st, idict, ity, tstr, tx, rstr, rs, clist, ct, ety) ==
  [type |-> ty, subtype |-> st,
   item_is_dict |-> idict, item_type |-> ity,
   text_is_str |-> tstr, text |-> tx,
   result_is_str |-> rstr, result |-> rs,
   content_is_list |-> clist, content |-> ct,
   event_type |-> ety]

\* {"type": t}
TypeOnly(t) ==
  Object(t, Absent, FALSE, Absent, FALSE, <<>>, FALSE, <<>>, FALSE, <<>>, Absent)
\* {"type": "item.completed", "item": {"type": it, "text": p}}
ItemCompleted(it, text_is_str, p) ==
  Object("item.completed", Absent, TRUE, it, text_is_str, p,
         FALSE, <<>>, FALSE, <<>>, Absent)

\* The object shapes of the alphabet.  A line holding the object is the bytes
\* "{", the shape's atom, the payload string's characters, "}".
PayloadShapes ==
  {"reasoning", "agent_message", "assistant_message", "tool_call",
   "item.started", "assistant", "assistant.blocks", "result", "notype"}
BareShapes ==
  {"thread.started", "turn.started", "turn.completed", "turn.failed",
   "agent_message.notext", "assistant_message.textnum", "item.completed.noitem",
   "system.init", "system", "stream.delta", "stream.stop", "stream_event",
   "result.null", "assistant.nocontent"}
Shapes == PayloadShapes \cup BareShapes

\* json.loads on "{" shape payload "}".
JsonObject(shape, p) ==
  CASE shape = "reasoning" -> ItemCompleted("reasoning", TRUE, p)
    [] shape = "agent_message" -> ItemCompleted("agent_message", TRUE, p)
    [] shape = "assistant_message" -> ItemCompleted("assistant_message", TRUE, p)
    [] shape = "tool_call" -> ItemCompleted("tool_call", TRUE, p)
    \* {"type":"item.completed","item":{"type":"agent_message"}}
    [] shape = "agent_message.notext" ->
         ItemCompleted("agent_message", FALSE, <<>>)
    \* {"type":"item.completed","item":{"type":"assistant_message","text":7}}
    [] shape = "assistant_message.textnum" ->
         ItemCompleted("assistant_message", FALSE, <<>>)
    \* {"type":"item.completed"}
    [] shape = "item.completed.noitem" -> TypeOnly("item.completed")
    \* {"type":"item.started","item":{"type":"agent_message","text":p}}
    [] shape = "item.started" ->
         [ItemCompleted("agent_message", TRUE, p) EXCEPT !.type = "item.started"]
    \* {"x": p}
    [] shape = "notype" -> TypeOnly(Absent)
    [] shape = "system.init" -> [TypeOnly("system") EXCEPT !.subtype = "init"]
    [] shape = "stream.delta" ->
         [TypeOnly("stream_event") EXCEPT !.event_type = "content_block_delta"]
    [] shape = "stream.stop" ->
         [TypeOnly("stream_event") EXCEPT !.event_type = "message_stop"]
    \* {"type":"assistant","message":{"content":[{"type":"text","text":p}]}}
    [] shape = "assistant" ->
         [TypeOnly("assistant") EXCEPT !.content_is_list = TRUE,
            !.content = <<Block("text", TRUE, p)>>]
    \* ... "content":[{"type":"text","text":p},{"type":"tool_use"},
    \*                {"type":"text","text":7},{"type":"text","text":"!"}]
    [] shape = "assistant.blocks" ->
         [TypeOnly("assistant") EXCEPT !.content_is_list = TRUE,
            !.content = <<Block("text", TRUE, p), Block("tool_use", FALSE, <<>>),
                          Block("text", FALSE, <<>>), Block("text", TRUE, <<"!">>)>>]
    \* {"type":"assistant","message":{}}
    [] shape = "assistant.nocontent" -> TypeOnly("assistant")
    \* {"type":"result","result":p}
    [] shape = "result" ->
         [TypeOnly("result") EXCEPT !.result_is_str = TRUE, !.result = p]
    \* {"type":"result","result":null}
    [] shape = "result.null" -> TypeOnly("result")
    [] OTHER -> TypeOnly(shape)

\* What json.loads cannot parse.
NoObject == [type |-> "<malformed>"]

\* json.loads(line) of a stripped line that starts with "{": the object, or
\* NoObject (JSONDecodeError) when the text is not one whole object.
JsonLoads(line) ==
  IF /\ Len(line) >= 3
     /\ line[1] = "{"
     /\ line[Len(line)] = "}"
     /\ line[2] \in Shapes
     /\ \A i \in 3..(Len(line) - 1) : line[i] \notin Shapes \cup {"{", "}"}
     /\ (line[2] \in BareShapes => Len(line) = 3)
    THEN JsonObject(line[2], SubSeq(line, 3, Len(line) - 1))
    ELSE NoObject

\* A number written with more digits than int() converts (4300 by default),
\* as one atom of an object's text.
BigInt == "<4301 digits>"
\* json.loads(line) raises an exception that is no JSONDecodeError: the
\* ValueError of the integer conversion, for an object that is well formed
\* but for a number of that size in it.
JsonLoadsRaises(line) ==
  /\ Len(line) >= 4
  /\ line[1] = "{"
  /\ line[Len(line)] = "}"
  /\ line[2] \in PayloadShapes
  /\ \A i \in 3..(Len(line) - 1) : line[i] \notin Shapes \cup {"{", "}"}
  /\ \E i \in 3..(Len(line) - 1) : line[i] = BigInt

\* ------------------------------------------------------------------ probes
\* A value of _extract_nested_str is a string or None (Absent here); the
\* callers' "if not x" takes the empty string for None too.
NoEvent == <<"none", "">>
Missing(x) == x = Absent \/ x = ""

\* The characters of a string, and the string of some characters.
Chars(s) == [i \in 1..Len(s) |-> SubSeq(s, i, i)]
RECURSIVE Join(_)
Join(cs) ==
  IF cs = <<>> THEN ""
  ELSE IF Len(cs) = 1 THEN cs[1]
  ELSE Join(SubSeq(cs, 1, Len(cs) \div 2))
         \o Join(SubSeq(cs, Len(cs) \div 2 + 1, Len(cs)))
\* re.sub(r"\s+", " ", ...): every run of whitespace becomes one space (the
\* first character of a run is kept, as a space, and the others go).
Collapsed(cs, kept) ==
  [k \in 1..Cardinality(kept) |->
     LET i == CHOOSE i \in kept : Cardinality({j \in kept : j < i}) = k - 1
     IN IF cs[i] \in Whitespace THEN " " ELSE cs[i]]
CollapseWhitespace(cs) ==
  CHOOSE r \in
    {Collapsed(cs, kept) :
       kept \in {{i \in 1..Len(cs) :
                    \/ cs[i] \notin Whitespace
                    \/ i = 1
                    \/ cs[i - 1] \notin Whitespace}}} : TRUE
\* The normalisation that cuts nothing.
CompactEventLabelUncut(label) ==
  CHOOSE s \in
    {Join(text) :
       text \in {CollapseWhitespace(stripped) :
                   stripped \in {Strip(cs) : cs \in {Chars(label)}}}} : TRUE
\* _compact_event_label(label)
CompactEventLabel(label) ==
  CHOOSE s \in
    {Join(SubSeq(text, 1, Min(80, Len(text)))) :
       text \in {CollapseWhitespace(stripped) :
                   stripped \in {Strip(cs) : cs \in {Chars(label)}}}} : TRUE

\* _extract_codex_event(obj): <<kind, label>> or NoEvent.
ExtractCodexEvent(obj) ==
  LET top_type == obj.type
      item_type == IF obj.item_is_dict THEN obj.item_type ELSE Absent
  IN IF Missing(top_type) THEN NoEvent
     ELSE IF top_type \in {"thread.started", "turn.started", "item.started"}
       THEN <<"progress", CompactEventLabel(top_type)>>
     ELSE IF top_type \in {"turn.completed", "thread.completed"}
       THEN <<"final", CompactEventLabel(top_type)>>
     ELSE IF top_type = "item.completed"
       THEN IF Missing(item_type) THEN <<"progress", "item.completed">>
            ELSE IF item_type \in {"reasoning", "tool_call", "tool_result"}
              THEN <<"progress", "item." \o CompactEventLabel(item_type)>>
            ELSE IF item_type \in {"agent_message", "assistant_message"}
              THEN <<"final", "item." \o CompactEventLabel(item_type)>>
            ELSE <<"progress", "item." \o CompactEventLabel(item_type)>>
     ELSE IF top_type \in {"error", "turn.failed"}
       THEN <<"final", CompactEventLabel(top_type)>>
     ELSE <<"progress", CompactEventLabel(top_type)>>

\* _extract_claude_event(obj): <<kind, label>> or NoEvent.
ExtractClaudeEvent(obj) ==
  LET top_type == obj.type
      label == IF ~Missing(obj.subtype)
                 THEN "system." \o obj.subtype ELSE "system"
  IN IF Missing(top_type) THEN NoEvent
     ELSE IF top_type \in {"result", "assistant"}
       THEN <<"final", CompactEventLabel(top_type)>>
     ELSE IF top_type = "system"
       THEN <<"progress", CompactEventLabel(label)>>
     ELSE IF top_type = "stream_event"
       THEN IF Missing(obj.event_type) THEN <<"progress", "stream_event">>
            ELSE IF obj.event_type \in {"message_stop"}
              THEN <<"final", CompactEventLabel("stream." \o obj.event_type)>>
            ELSE <<"progress", CompactEventLabel("stream." \o obj.event_type)>>
     ELSE <<"progress", CompactEventLabel(top_type)>>

\* The dispatch that gives each format the other's classifier.
ExtractProbeEventSwapped(activity_probe, obj) ==
  IF activity_probe = "codex_json" THEN ExtractClaudeEvent(obj)
  ELSE IF activity_probe = "claude_stream_json" THEN ExtractCodexEvent(obj)
  ELSE NoEvent
\* _extract_probe_event(activity_probe, obj)
ExtractProbeEvent(activity_probe, obj) ==
  IF activity_probe = "codex_json" THEN ExtractCodexEvent(obj)
  ELSE IF activity_probe = "claude_stream_json" THEN ExtractClaudeEvent(obj)
  ELSE NoEvent

\* _init_probe_state(activity_probe).  The generic probe's state is {}: it is
\* never read, and is the same record here.
InitProbeState ==
  [offset |-> 0, tail |-> <<>>, progress_count |-> 0, final_count |-> 0,
   last_progress |-> Absent, last_final |-> Absent]

\* The body of the loop "for raw_line in lines" of _update_probe_state, from
\* its end to its start: the counters and labels after an event, after a
\* parsed object, after a stripped line, after a raw line.  (Here and below,
\* "x \in {e}" names the value of e, computed once.)
ProbeEvent(state, event) ==
  IF event = NoEvent THEN state
  ELSE IF event[1] = "progress"
    THEN [state EXCEPT !.progress_count = @ + 1, !.last_progress = event[2]]
  ELSE IF event[1] = "final"
    THEN [state EXCEPT !.final_count = @ + 1, !.last_final = event[2]]
  ELSE state

ProbeObject(activity_probe, state, obj) ==
  IF obj = NoObject THEN state
  ELSE CHOOSE s \in {ProbeEvent(state, event) :
                       event \in {ExtractProbeEvent(activity_probe, obj)}} : TRUE

ProbeStripped(activity_probe, state, line) ==
  IF line = <<>> \/ line[1] # "{" THEN state
  ELSE CHOOSE s \in {ProbeObject(activity_probe, state, obj) :
                       obj \in {JsonLoads(line)}} : TRUE

ProbeLine(activity_probe, state, raw_line) ==
  CHOOSE s \in {ProbeStripped(activity_probe, state, line) :
                  line \in {Strip(raw_line)}} : TRUE

\* Lines 453-469, one pass of the loop body: the state after the line, or the
\* exception that "except json.JSONDecodeError" (line 459) does not catch and
\* that leaves _update_probe_state with the state as it was.
ProbeLineCall(activity_probe, state, raw_line) ==
  IF JsonLoadsRaises(Strip(raw_line))
    THEN [raised |-> TRUE, state |-> state]
    ELSE [raised |-> FALSE, state |-> ProbeLine(activity_probe, state, raw_line)]

RECURSIVE ProbeLines(_, _, _)
ProbeLines(activity_probe, state, lines) ==
  IF lines = <<>> THEN state
  ELSE CHOOSE s \in {ProbeLines(activity_probe, after, rest) :
                       after \in {ProbeLine(activity_probe, state, Head(lines))},
                       rest \in {Tail(lines)}} : TRUE

\* _read_new_stdout_chunk(stdout_path, state): the text read from the byte
\* offset to the end of the file; the offset becomes the file's size.
ReadNewStdoutChunk(file, state) == ReadText(From(file, state.offset + 1))

\* Whether the last of the lines is held back: it has no "\n" or "\r" at its
\* end.
HeldBack(lines) ==
  lines # <<>> /\ lines[Len(lines)][Len(lines[Len(lines)])] \notin {"\n", "\r"}

\* Lines 440-482 of _update_probe_state: the state after the chunk read, all
\* being the lines of tail + chunk.
ProbeChunk(activity_probe, state, size, all) ==
  ProbeLines(activity_probe,
    [state EXCEPT !.offset = size,
                  !.tail = IF HeldBack(all) THEN all[Len(all)] ELSE <<>>],
    IF HeldBack(all) THEN SubSeq(all, 1, Len(all) - 1) ELSE all)

\* _update_probe_state(activity_probe, stdout_path, state): the new state (the
\* four values it returns are the state's counters and labels).
UpdateProbeState(activity_probe, file, state) ==
  IF activity_probe = "generic" THEN state
  ELSE CHOOSE s \in
         {IF chunk = <<>> THEN [state EXCEPT !.offset = Len(file)]
          ELSE CHOOSE t \in {ProbeChunk(activity_probe, state, Len(file), all) :
                               all \in {SplitLinesKeepEnds(state.tail \o chunk)}} :
                 TRUE :
            chunk \in {ReadNewStdoutChunk(file, state)}} : TRUE

\* ---------------------------------------------------------------- extraction
\* json.loads of a stripped line, as a sequence of no or one object.
ParsedLine(stripped) ==
  IF stripped = <<>> \/ stripped[1] # "{" THEN <<>>
  ELSE CHOOSE objs \in {IF obj = NoObject THEN <<>> ELSE <<obj>> :
                          obj \in {JsonLoads(stripped)}} : TRUE

RECURSIVE IterJsonLines(_)
\* _iter_json_lines over the lines of raw_output.splitlines(): the objects of
\* the lines that parse.
IterJsonLines(lines) ==
  IF lines = <<>> THEN <<>>
  ELSE CHOOSE objs \in {ParsedLine(stripped) \o IterJsonLines(rest) :
                          stripped \in {Strip(Head(lines))},
                          rest \in {Tail(lines)}} : TRUE

\* A text the extractors have not found (None).
NoText == <<"<none>">>

\* The body of the loop of _extract_codex_final_output: final_text after obj.
CodexFinalStep(obj, final_text) ==
  IF /\ obj.type = "item.completed"
     /\ obj.item_is_dict
     /\ obj.item_type \in {"agent_message", "assistant_message"}
     /\ obj.text_is_str
    THEN obj.text ELSE final_text

RECURSIVE CodexFinalText(_, _)
\* The loop of _extract_codex_final_output: final_text after the objects.
CodexFinalText(objs, final_text) ==
  IF objs = <<>> THEN final_text
  ELSE CHOOSE t \in {CodexFinalText(rest, next) :
                       rest \in {Tail(objs)},
                       next \in {CodexFinalStep(Head(objs), final_text)}} : TRUE

\* _extract_codex_final_output(raw_output)
ExtractCodexFinalOutput(raw_output) ==
  CHOOSE t \in {IF final_text # NoText THEN final_text ELSE raw_output :
                  final_text \in
                    {CodexFinalText(IterJsonLines(SplitLinesKeepEnds(raw_output)),
                                    NoText)}} : TRUE

RECURSIVE TextParts(_)
\* The parts list of _extract_claude_message_text.
TextParts(content) ==
  IF content = <<>> THEN <<>>
  ELSE LET block == Head(content)
       IN (IF block.type = "text" /\ block.text_is_str
             THEN <<block.text>> ELSE <<>>) \o TextParts(Tail(content))

\* _extract_claude_message_text(message)
ExtractClaudeMessageText(obj) ==
  IF ~obj.content_is_list THEN NoText
  ELSE IF TextParts(obj.content) = <<>> THEN NoText
  ELSE Concat(TextParts(obj.content))

\* The body of the loop of _extract_claude_final_output: <<result_text,
\* assistant_text>> after obj.
ClaudeStep(obj, texts) ==
  IF obj.type = "result"
    THEN <<IF obj.result_is_str THEN obj.result ELSE texts[1], texts[2]>>
  ELSE IF obj.type = "assistant"
    THEN CHOOSE t \in {<<texts[1], IF msg_text # NoText THEN msg_text ELSE texts[2]>> :
                         msg_text \in {ExtractClaudeMessageText(obj)}} : TRUE
  ELSE texts

RECURSIVE ClaudeTexts(_, _)
\* The loop of _extract_claude_final_output: <<result_text, assistant_text>>
\* after the objects.
ClaudeTexts(objs, texts) ==
  IF objs = <<>> THEN texts
  ELSE CHOOSE t \in {ClaudeTexts(rest, next) :
                       rest \in {Tail(objs)},
                       next \in {ClaudeStep(Head(objs), texts)}} : TRUE

\* _extract_claude_final_output(raw_output)
ExtractClaudeFinalOutput(raw_output) ==
  CHOOSE t \in {IF texts[1] # NoText THEN texts[1]
                ELSE IF texts[2] # NoText THEN texts[2]
                ELSE raw_output :
                  texts \in
                    {ClaudeTexts(IterJsonLines(SplitLinesKeepEnds(raw_output)),
                                 <<NoText, NoText>>)}} : TRUE

\* _extract_reviewer_output(activity_probe, raw_output)
ExtractReviewerOutput(activity_probe, raw_output) ==
  IF activity_probe = "codex_json" THEN ExtractCodexFinalOutput(raw_output)
  ELSE IF activity_probe = "claude_stream_json"
    THEN ExtractClaudeFinalOutput(raw_output)
  ELSE raw_output

\* ------------------------------------------------------ rate-limit detection
\* str.lower() on the letters of the alphabet.
LowerChar(c) ==
  CASE c = "R" -> "r" [] c = "A" -> "a" [] c = "T" -> "t" [] c = "E" -> "e"
    [] c = "L" -> "l" [] c = "I" -> "i" [] c = "M" -> "m" [] c = "U" -> "u"
    [] c = "S" -> "s" [] c = "G" -> "g" [] c = "O" -> "o" [] c = "N" -> "n"
    [] c = "Y" -> "y" [] c = "H" -> "h" [] c = "P" -> "p" [] c = "Q" -> "q"
    [] OTHER -> c
Lower(s) == [i \in DOMAIN s |-> LowerChar(s[i])]

\* _RATE_LIMIT_PATTERNS
RATE_LIMIT_PATTERNS ==
  << <<"r","a","t","e","_","l","i","m","i","t">>,
     <<"r","a","t","e"," ","l","i","m","i","t">>,
     <<"u","s","a","g","e","_","l","i","m","i","t">>,
     <<"u","s","a","g","e"," ","l","i","m","i","t">>,
     <<"4","2","9"," ","t","o","o"," ","m","a","n","y">>,
     <<"h","t","t","p"," ","4","2","9">>,
     <<"t","o","o"," ","m","a","n","y"," ","r","e","q","u","e","s","t","s">> >>

\* The detection that looks at stdout only.
IsRateLimitErrorStdoutOnly(stdout, stderr) ==
  \E combined \in {Lower(stdout)} :
    \E k \in DOMAIN RATE_LIMIT_PATTERNS :
      Contains(combined, RATE_LIMIT_PATTERNS[k])
\* _is_rate_limit_error(stdout, stderr)
IsRateLimitError(stdout, stderr) ==
  \E combined \in {Lower(stdout \o <<"\n">> \o stderr)} :
    \E k \in DOMAIN RATE_LIMIT_PATTERNS :
      Contains(combined, RATE_LIMIT_PATTERNS[k])

\* =========================================================================
\* The state
\* =========================================================================
VARIABLES
  \* The Reviewer objects, by number: their fallback and rate_limit_fallback
  \* (NoConfig for None) and activity_probe fields.
  fallback, rate_limit_fallback, activity_probe,
  \* run_review_loop's arguments: reviewers, cycles, and in args its timeout,
  \* stall_timeout and heartbeat_secs, in ticks (0 for None: both mean "no
  \* limit" to the code).
  reviewers, cycles, args,
  \* Whether /proc/<pid>/stat can be read on this machine, and what the
  \* reviewers' commands may do when run.
  procfs, programs,
  \* run_review_loop: its position, the loop variables (ridx indexes
  \* reviewers) and the outputs given to save_comments.
  loop_pc, cycle, ridx, saved,
  \* Reviewer.run: the object it runs on and its arguments, the objects
  \* attempted so far in this call from the loop, what the last _execute gave,
  \* the last [FALLBACK] or [RATE LIMIT] notice printed, and what run gave.
  self, timeout, stall_timeout, heartbeat_secs,
  attempts, exec_result, notice, outcome,
  \* The operating system: every subprocess spawned so far (the pid is the
  \* index), the current invocation's two log files and the supervisor's open
  \* handles on its files, and the monotonic clock (re-based at each spawn:
  \* the code uses differences of its readings only).
  procs, stdout_file, stderr_file, handles, clock,
  \* Reviewer._execute: its position and its local variables.
  pc, loc,
  \* The last [HEARTBEAT] line printed (NoHeartbeat before the first).
  heartbeat,
  \* The probes and the extractors by themselves: the bytes a subprocess
  \* writes to its stdout, how many of them it has written so far, the probe
  \* state after the updates so far, and the text extracted.
  stream, fed, probe, extracted,
  \* A function called by itself: the function with its arguments, and what it
  \* returned.
  call_args, call_result

cfgVars == <<fallback, rate_limit_fallback, activity_probe, reviewers, cycles,
             args, procfs, programs>>
loopVars == <<loop_pc, cycle, ridx, saved>>
limitVars == <<timeout, stall_timeout, heartbeat_secs>>
runVars == <<self, limitVars, attempts, exec_result, notice, outcome>>
osVars == <<procs, stdout_file, stderr_file, handles, clock>>
execVars == <<pc, loc, heartbeat>>
pureVars == <<stream, fed, probe, extracted, call_args, call_result>>
vars == <<cfgVars, loopVars, runVars, osVars, execVars, pureVars>>

Configs == 1..NumConfigs
NoConfig == 0
ProbeKinds == {"generic", "codex_json", "claude_stream_json"}
\* Python's None where a number is expected.
None == -1

\* proc.returncode after SIGTERM and SIGKILL.
SIGTERM_RC == -15
SIGKILL_RC == -9

\* Lines a subprocess may write.
RateLimitLine == <<"R", "a", "t", "e", " ", "L", "i", "m", "i", "t", "\n">>
OkLine == <<"o", "k", "\n">>
ReasoningLine == <<"{", "reasoning", "}", "\n">>
AgentMessageLine == <<"{", "agent_message", "h", "i", "}", "\n">>
SystemLine == <<"{", "system.init", "}", "\n">>
ResultLine == <<"{", "result", "o", "k", "}", "\n">>

NoResult ==
  [kind |-> "none", output |-> <<>>, stderr_output |-> <<>>,
   returncode |-> None, timeout_value |-> None]
NoOutcome ==
  [kind |-> "none", text |-> <<>>, stderr |-> <<>>, timeout |-> None]
NoNotice == [kind |-> "none", from |-> NoConfig, to |-> NoConfig]
\* No function called by itself has returned.
NoCall == [returned |-> FALSE]
\* What a function called by itself returned.
CallValue(v) == [returned |-> TRUE, value |-> v]
NoHeartbeat ==
  [at |-> None, idle |-> None, output |-> None, progress_events |-> None,
   final_events |-> None]

\* _execute's locals before the loop (lines 172 and 204-219 set them).
NoLocals ==
  [now |-> 0, deadline |-> None, last_activity |-> 0,
   next_heartbeat |-> None, timeout_value |-> None, last_size |-> 0,
   last_cpu |-> None, last_cpu_tree |-> None, probe_state |-> InitProbeState,
   last_progress_count |-> 0, sleep_time |-> 0, timed_out |-> FALSE,
   site |-> "none"]

\* The current subprocess (proc in _execute).
pid == Len(procs)
Alive(p) == p.state = "running"

\* _read_proc_cpu_seconds(proc.pid): None when /proc/<pid>/stat cannot be read.
ReadProcCpuSeconds(p) ==
  IF procfs /\ p.state # "reaped" THEN p.cpu ELSE None
\* _read_proc_tree_cpu_seconds(proc.pid): the process and its descendants.
ReadProcTreeCpuSeconds(p) ==
  IF procfs /\ p.state # "reaped" THEN p.cpu + p.child_cpu ELSE None

\* =========================================================================
\* The subprocess (the environment of _execute)
\* =========================================================================
\* What a subprocess does, one after the other: write to its stdout or its
\* stderr, use CPU time (itself, or a child), exit with a code.  A program
\* that ends without an exit does nothing more by itself: it hangs.
Out(bytes) == [op |-> "out", bytes |-> bytes, rc |-> 0]
Err(bytes) == [op |-> "err", bytes |-> bytes, rc |-> 0]
Cpu == [op |-> "cpu", bytes |-> <<>>, rc |-> 0]
ChildCpu == [op |-> "child_cpu", bytes |-> <<>>, rc |-> 0]
Exit(rc) == [op |-> "exit", bytes |-> <<>>, rc |-> rc]

Running == pid >= 1 /\ procs[pid].state = "running"

\* The subprocess takes the next step of its program.
ProcStep ==
  /\ Running
  /\ procs[pid].program # <<>>
  /\ LET step == Head(procs[pid].program)
         p == [procs[pid] EXCEPT !.program = Tail(@)]
     IN /\ stdout_file' =
             IF step.op = "out" THEN stdout_file \o step.bytes ELSE stdout_file
        /\ stderr_file' =
             IF step.op = "err" THEN stderr_file \o step.bytes ELSE stderr_file
        /\ procs' = [procs EXCEPT ![pid] =
             CASE step.op = "cpu" -> [p EXCEPT !.cpu = @ + 1]
               [] step.op = "child_cpu" -> [p EXCEPT !.child_cpu = @ + 1]
               [] step.op = "exit" ->
                    [p EXCEPT !.state = "exited", !.returncode = step.rc]
               [] OTHER -> p]
  /\ UNCHANGED <<handles, clock>>
  /\ UNCHANGED <<cfgVars, loopVars, runVars, execVars, pureVars>>

\* The subprocess dies of a signal it was sent: of SIGKILL always, of SIGTERM
\* unless it ignores it.
ProcDie ==
  /\ pid >= 1
  /\ Alive(procs[pid])
  /\ \/ /\ procs[pid].sigkill
        /\ procs' = [procs EXCEPT ![pid].state = "exited",
                                  ![pid].returncode = SIGKILL_RC]
     \/ /\ procs[pid].sigterm
        /\ procs' = [procs EXCEPT ![pid].state = "exited",
                                  ![pid].returncode = SIGTERM_RC]
  /\ UNCHANGED <<stdout_file, stderr_file, handles, clock>>
  /\ UNCHANGED <<cfgVars, loopVars, runVars, execVars, pureVars>>

ProcNext == ProcStep \/ ProcDie

\* =========================================================================
\* Reviewer._execute
\* =========================================================================
NewProc ==
  [state |-> "running", returncode |-> None, cpu |-> 0, child_cpu |-> 0,
   program |-> <<>>, sigterm |-> FALSE, sigkill |-> FALSE]

\* proc.poll() / proc.wait() on a subprocess that has exited: it is reaped,
\* and only its exit status is kept (in proc.returncode).  One that has not
\* exited stays what it is.
Reaped(ps) ==
  IF Alive(ps[Len(ps)]) THEN ps
  ELSE [ps EXCEPT ![Len(ps)] = [NewProc EXCEPT !.state = "reaped",
                                  !.returncode = ps[Len(ps)].returncode]]

\* A wait that returns at once, as proc.poll() does.
ProcWaitNoBlock(p) == TRUE
\* proc.wait() without a timeout (lines 359 and 743) returns once the
\* subprocess has exited.
ProcWait(p) == ~Alive(p)
\* The Popen objects of earlier invocations are garbage: a reaped one keeps
\* nothing, one not reaped is still a process.
Forgotten(ps) ==
  [i \in DOMAIN ps |->
     IF ps[i].state = "reaped" THEN [NewProc EXCEPT !.state = "reaped"] ELSE ps[i]]

\* Lines 161-172: the temporary directory, the prompt file, the three handles.
ExecuteOpen ==
  /\ pc = "open"
  /\ stdout_file' = <<>>
  /\ stderr_file' = <<>>
  /\ handles' = {"prompt_f", "stdout_f", "stderr_f"}
  /\ loc' = NoLocals
  /\ pc' = "spawn"
  /\ UNCHANGED <<procs, clock, heartbeat>>
  /\ UNCHANGED <<cfgVars, loopVars, runVars, pureVars>>

\* Lines 175-219: subprocess.Popen, which may raise (the command is not
\* found, say), and the locals set before the loop.
ExecuteSpawn ==
  /\ pc = "spawn"
  /\ \E spawned \in BOOLEAN, program \in programs :
       IF spawned
         THEN /\ procs' = Append(Forgotten(procs),
                                 [NewProc EXCEPT !.program = program])
              /\ clock' = 0
              /\ loc' = [loc EXCEPT
                   !.deadline = IF timeout # 0 THEN 0 + timeout ELSE None,
                   !.last_activity = 0,
                   !.next_heartbeat =
                      IF heartbeat_secs # 0 /\ heartbeat_secs > 0
                        THEN 0 + heartbeat_secs ELSE None,
                   !.timeout_value = IF timeout # 0 THEN timeout ELSE None,
                   !.last_size = 0,
                   !.last_cpu = ReadProcCpuSeconds(NewProc),
                   !.last_cpu_tree = ReadProcTreeCpuSeconds(NewProc),
                   !.probe_state = InitProbeState,
                   !.last_progress_count = 0]
              /\ pc' = "poll"
              /\ UNCHANGED exec_result
         ELSE /\ pc' = "finally"
              /\ exec_result' = [NoResult EXCEPT !.kind = "error"]
              /\ UNCHANGED <<procs, clock, loc>>
  /\ UNCHANGED <<stdout_file, stderr_file, handles, heartbeat>>
  /\ UNCHANGED <<cfgVars, loopVars, self, limitVars, attempts, notice, outcome>>
  /\ UNCHANGED pureVars

\* The loop sleeping the whole poll interval whatever is left of the budget.
ExecutePollFullInterval ==
  /\ pc = "poll"
  /\ IF ~Alive(procs[pid])
       THEN /\ procs' = Reaped(procs)
            /\ pc' = "finally"
            /\ UNCHANGED loc
       ELSE LET now == clock
                remaining == loc.deadline - now
                sleep_time == IF loc.next_heartbeat # None
                                THEN Min(POLL_INTERVAL,
                                         Max(HEARTBEAT_MIN_SLEEP,
                                             loc.next_heartbeat - now))
                                ELSE POLL_INTERVAL
            IN /\ UNCHANGED procs
               /\ IF loc.deadline # None /\ remaining <= 0
                    THEN /\ pc' = "terminate"
                         /\ loc' = [loc EXCEPT !.now = now, !.site = "wall"]
                    ELSE /\ pc' = "wait"
                         /\ loc' = [loc EXCEPT !.now = now,
                                               !.sleep_time = sleep_time]
  /\ UNCHANGED <<stdout_file, stderr_file, handles, clock, heartbeat>>
  /\ UNCHANGED <<cfgVars, loopVars, runVars, pureVars>>

\* Lines 222-239: the loop test proc.poll(), the wall-clock deadline and the
\* sleep time.
ExecutePoll ==
  /\ pc = "poll"
  /\ IF ~Alive(procs[pid])
       THEN /\ procs' = Reaped(procs)
            /\ pc' = "finally"
            /\ UNCHANGED loc
       ELSE LET now == clock
                remaining == loc.deadline - now
                sleep0 == IF loc.deadline # None
                            THEN Min(POLL_INTERVAL, remaining) ELSE POLL_INTERVAL
                sleep_time == IF loc.next_heartbeat # None
                                THEN Min(sleep0, Max(HEARTBEAT_MIN_SLEEP,
                                                     loc.next_heartbeat - now))
                                ELSE sleep0
            IN /\ UNCHANGED procs
               /\ IF loc.deadline # None /\ remaining <= 0
                    THEN /\ pc' = "terminate"
                         /\ loc' = [loc EXCEPT !.now = now, !.site = "wall"]
                    ELSE /\ pc' = "wait"
                         /\ loc' = [loc EXCEPT !.now = now,
                                               !.sleep_time = sleep_time]
  /\ UNCHANGED <<stdout_file, stderr_file, handles, clock, heartbeat>>
  /\ UNCHANGED <<cfgVars, loopVars, runVars, pureVars>>

\* Lines 243-247: proc.wait(timeout=sleep_time) returns as soon as the
\* subprocess has exited (break), and raises TimeoutExpired after sleep_time
\* otherwise.
ExecuteWait ==
  /\ pc = "wait"
  /\ IF ~Alive(procs[pid])
       THEN /\ procs' = Reaped(procs)
            /\ pc' = "finally"
            /\ UNCHANGED clock
       ELSE /\ clock + loc.sleep_time <= MaxTime
            /\ clock' = clock + loc.sleep_time
            /\ pc' = "sample"
            /\ UNCHANGED procs
  /\ UNCHANGED <<stdout_file, stderr_file, handles, loc, heartbeat>>
  /\ UNCHANGED <<cfgVars, loopVars, runVars, pureVars>>

\* The sampling that takes the growth of the logs for the only sign of life.
SampledOutputOnly(l, p) ==
  LET current_size == Len(stdout_file) + Len(stderr_file)
      grew == current_size > l.last_size
      cpu_now == ReadProcCpuSeconds(p)
      cpu_tree_now == ReadProcTreeCpuSeconds(p)
      probe_state == UpdateProbeState(activity_probe[self], stdout_file,
                                      l.probe_state)
      progress_count == IF activity_probe[self] = "generic"
                          THEN 0 ELSE probe_state.progress_count
      progressed == progress_count > l.last_progress_count
  IN [l EXCEPT
        !.last_size = IF grew THEN current_size ELSE @,
        !.last_activity = IF grew THEN clock ELSE @,
        !.last_cpu = IF cpu_now # None THEN cpu_now ELSE @,
        !.last_cpu_tree = IF cpu_tree_now # None THEN cpu_tree_now ELSE @,
        !.probe_state = probe_state,
        !.last_progress_count = IF progressed THEN progress_count ELSE @,
        !.now = clock]
\* Lines 249-302: the four liveness signals and the last-activity timestamp.
\* (The [PROGRESS] line with last_progress_emit, and last_output, which only
\* printed lines read, are left out.)
Sampled(l, p) ==
  LET current_size == Len(stdout_file) + Len(stderr_file)
      grew == current_size > l.last_size
      cpu_now == ReadProcCpuSeconds(p)
      cpu_up == cpu_now # None /\ l.last_cpu # None /\ cpu_now > l.last_cpu
      cpu_tree_now == ReadProcTreeCpuSeconds(p)
      tree_up == /\ cpu_tree_now # None
                 /\ l.last_cpu_tree # None
                 /\ cpu_tree_now > l.last_cpu_tree
      probe_state == UpdateProbeState(activity_probe[self], stdout_file,
                                      l.probe_state)
      progress_count == IF activity_probe[self] = "generic"
                          THEN 0 ELSE probe_state.progress_count
      progressed == progress_count > l.last_progress_count
  IN [l EXCEPT
        !.last_size = IF grew THEN current_size ELSE @,
        !.last_activity =
           IF grew \/ cpu_up \/ tree_up \/ progressed THEN clock ELSE @,
        !.last_cpu = IF cpu_now # None THEN cpu_now ELSE @,
        !.last_cpu_tree = IF cpu_tree_now # None THEN cpu_tree_now ELSE @,
        !.probe_state = probe_state,
        !.last_progress_count = IF progressed THEN progress_count ELSE @,
        !.now = clock]

\* Lines 304-337: whether a heartbeat is due, and the line printed.
HeartbeatDue(l) == l.next_heartbeat # None /\ l.now >= l.next_heartbeat
\* The line printed from what the iteration before had sampled.
HeartbeatLineStale(l) ==
  [at |-> l.now, idle |-> l.now - loc.last_activity, output |-> loc.last_size,
   progress_events |->
     IF activity_probe[self] = "generic" THEN None
     ELSE loc.probe_state.progress_count,
   final_events |->
     IF activity_probe[self] = "generic" THEN None
     ELSE loc.probe_state.final_count]
HeartbeatLine(l) ==
  [at |-> l.now, idle |-> l.now - l.last_activity, output |-> l.last_size,
   progress_events |->
     IF activity_probe[self] = "generic" THEN None
     ELSE l.probe_state.progress_count,
   final_events |->
     IF activity_probe[self] = "generic" THEN None
     ELSE l.probe_state.final_count]

\* The stall check made against the wall-clock limit.
StalledByWallLimit(l) ==
  timeout # 0 /\ timeout > 0 /\ l.now - l.last_activity >= timeout
\* Lines 339-341: whether the stall limit has been reached.
Stalled(l) ==
  stall_timeout # 0 /\ stall_timeout > 0 /\ l.now - l.last_activity >= stall_timeout

\* Lines 249-353: the rest of one iteration after the wait timed out.
ExecuteSample ==
  /\ pc = "sample"
  /\ \E l \in {Sampled(loc, procs[pid])} :
        /\ heartbeat' = IF HeartbeatDue(l) THEN HeartbeatLine(l) ELSE heartbeat
        /\ loc' = [l EXCEPT
             !.next_heartbeat = IF HeartbeatDue(l) THEN l.now + heartbeat_secs ELSE @,
             !.site = IF Stalled(l) THEN "stall" ELSE @]
        /\ pc' = IF Stalled(l) THEN "terminate" ELSE "poll"
  /\ UNCHANGED <<procs, stdout_file, stderr_file, handles, clock>>
  /\ UNCHANGED <<cfgVars, loopVars, runVars, pureVars>>

\* What follows _terminate_process at its two call sites (lines 228-230 and
\* 351-353): timed_out, timeout_value, break.
\* The wall-clock limit recorded at both call sites.
AfterTerminateWallLimit(l) ==
  [l EXCEPT !.timed_out = TRUE, !.timeout_value = timeout]
AfterTerminate(l) ==
  [l EXCEPT !.timed_out = TRUE,
            !.timeout_value = IF l.site = "wall" THEN timeout ELSE stall_timeout]

\* _terminate_process, lines 736-737: nothing to do if the subprocess has
\* exited.
TerminatePoll ==
  /\ pc = "terminate"
  /\ IF ~Alive(procs[pid])
       THEN /\ procs' = Reaped(procs)
            /\ loc' = AfterTerminate(loc)
            /\ pc' = "finally"
       ELSE /\ pc' = "sigterm"
            /\ UNCHANGED <<procs, loc>>
  /\ UNCHANGED <<stdout_file, stderr_file, handles, clock, heartbeat>>
  /\ UNCHANGED <<cfgVars, loopVars, runVars, pureVars>>

\* Line 738: proc.terminate() sends SIGTERM, unless the subprocess has exited
\* in the meantime (Popen.send_signal polls first).
TerminateSignal ==
  /\ pc = "sigterm"
  /\ procs' = IF Alive(procs[pid])
                THEN [procs EXCEPT ![pid].sigterm = TRUE] ELSE Reaped(procs)
  /\ pc' = "grace"
  /\ UNCHANGED <<stdout_file, stderr_file, handles, clock, loc, heartbeat>>
  /\ UNCHANGED <<cfgVars, loopVars, runVars, pureVars>>

\* The wait that gives the subprocess no time to die of SIGTERM.
TerminateWaitNoGrace ==
  /\ pc = "grace"
  /\ IF ~Alive(procs[pid])
       THEN /\ procs' = Reaped(procs)
            /\ loc' = AfterTerminate(loc)
            /\ pc' = "finally"
       ELSE /\ pc' = "sigkill"
            /\ UNCHANGED <<procs, loc>>
  /\ UNCHANGED <<stdout_file, stderr_file, handles, clock, heartbeat>>
  /\ UNCHANGED <<cfgVars, loopVars, runVars, pureVars>>
\* Lines 739-741: proc.wait(timeout=5).
TerminateWait ==
  /\ pc = "grace"
  /\ IF ~Alive(procs[pid])
       THEN /\ procs' = Reaped(procs)
            /\ loc' = AfterTerminate(loc)
            /\ pc' = "finally"
            /\ UNCHANGED clock
       ELSE /\ clock' = clock + TERMINATE_GRACE
            /\ pc' = "sigkill"
            /\ UNCHANGED <<procs, loc>>
  /\ UNCHANGED <<stdout_file, stderr_file, handles, heartbeat>>
  /\ UNCHANGED <<cfgVars, loopVars, runVars, pureVars>>

\* Line 742: proc.kill().
TerminateKill ==
  /\ pc = "sigkill"
  /\ procs' = IF Alive(procs[pid])
                THEN [procs EXCEPT ![pid].sigkill = TRUE] ELSE Reaped(procs)
  /\ pc' = "killed"
  /\ UNCHANGED <<stdout_file, stderr_file, handles, clock, loc, heartbeat>>
  /\ UNCHANGED <<cfgVars, loopVars, runVars, pureVars>>

\* Line 743: proc.wait() returns once the subprocess has exited.
TerminateReap ==
  /\ pc = "killed"
  /\ ProcWait(procs[pid])
  /\ procs' = Reaped(procs)
  /\ loc' = AfterTerminate(loc)
  /\ pc' = "finally"
  /\ UNCHANGED <<stdout_file, stderr_file, handles, clock, heartbeat>>
  /\ UNCHANGED <<cfgVars, loopVars, runVars, pureVars>>

\* The finally block that closes the prompt's handle only.
ExecuteFinallyKeepsLogsOpen ==
  /\ pc = "finally"
  /\ handles' = handles \ {"prompt_f"}
  /\ pc' = IF exec_result.kind = "error" THEN "result" ELSE "join"
  /\ UNCHANGED <<procs, stdout_file, stderr_file, clock, loc, heartbeat>>
  /\ UNCHANGED <<cfgVars, loopVars, runVars, pureVars>>
\* The finally block after which _execute goes on whatever was raised.
ExecuteFinallyThenJoin ==
  /\ pc = "finally"
  /\ handles' = {}
  /\ pc' = "join"
  /\ UNCHANGED <<procs, stdout_file, stderr_file, clock, loc, heartbeat>>
  /\ UNCHANGED <<cfgVars, loopVars, runVars, pureVars>>
\* Lines 354-357: the finally block closes the three handles; an exception
\* of Popen then leaves _execute.
ExecuteFinally ==
  /\ pc = "finally"
  /\ handles' = {}
  /\ pc' = IF exec_result.kind = "error" THEN "result" ELSE "join"
  /\ UNCHANGED <<procs, stdout_file, stderr_file, clock, loc, heartbeat>>
  /\ UNCHANGED <<cfgVars, loopVars, runVars, pureVars>>

\* Line 359: proc.wait() returns once the subprocess has exited.
ExecuteJoin ==
  /\ pc = "join"
  /\ ProcWait(procs[pid])
  /\ procs' = Reaped(procs)
  /\ pc' = "read"
  /\ UNCHANGED <<stdout_file, stderr_file, handles, clock, loc, heartbeat>>
  /\ UNCHANGED <<cfgVars, loopVars, runVars, pureVars>>

\* Lines 360-384: the two files are read back; TimeoutExpired is raised with
\* them if the loop timed out, and they are returned with the exit code if not.
\* The read-back that gives up the partial output of a timed-out subprocess.
ReadBackDropsPartial ==
  [kind |-> IF loc.timed_out THEN "timeout" ELSE "ok",
   output |-> IF loc.timed_out THEN <<>> ELSE ReadText(stdout_file),
   stderr_output |-> IF loc.timed_out THEN <<>> ELSE ReadText(stderr_file),
   returncode |-> procs[pid].returncode,
   timeout_value |-> IF loc.timed_out THEN loc.timeout_value ELSE None]
ReadBack ==
  [kind |-> IF loc.timed_out THEN "timeout" ELSE "ok",
   output |-> ReadText(stdout_file),
   stderr_output |-> ReadText(stderr_file),
   returncode |-> procs[pid].returncode,
   timeout_value |-> IF loc.timed_out THEN loc.timeout_value ELSE None]

ExecuteRead ==
  /\ pc = "read"
  /\ exec_result' = ReadBack
  /\ pc' = "result"
  /\ UNCHANGED <<procs, stdout_file, stderr_file, handles, clock, loc, heartbeat>>
  /\ UNCHANGED <<cfgVars, loopVars, self, limitVars, attempts, notice, outcome>>
  /\ UNCHANGED pureVars

ExecuteNext ==
  \/ ExecuteOpen \/ ExecuteSpawn \/ ExecutePoll \/ ExecuteWait \/ ExecuteSample
  \/ TerminatePoll \/ TerminateSignal \/ TerminateWait \/ TerminateKill
  \/ TerminateReap \/ ExecuteFinally \/ ExecuteJoin \/ ExecuteRead

\* =========================================================================
\* Reviewer.run
\* =========================================================================
\* The retry that calls run on the same reviewer again.
RetrySame(why, fb) ==
  /\ Len(attempts) < MaxAttempts
  /\ notice' = [kind |-> why, from |-> self, to |-> self]
  /\ attempts' = Append(attempts, self)
  /\ pc' = "open"
  /\ exec_result' = NoResult
  /\ UNCHANGED <<self, limitVars, outcome>>
\* The next attempt of run: the notice is printed and "return fb.run(prompt,
\* timeout=timeout, stall_timeout=stall_timeout, heartbeat_secs=heartbeat_secs)".
\* The retry with cycle detection: a reviewer attempted before in this call
\* counts as no fallback, and the attempt's own output is returned.
RetryUnlessVisited(why, fb) ==
  IF \E i \in 1..Len(attempts) : attempts[i] = fb
    THEN /\ outcome' = [NoOutcome EXCEPT !.kind = "return",
                                          !.text = exec_result.output]
         /\ pc' = "idle"
         /\ exec_result' = NoResult
         /\ UNCHANGED <<self, limitVars, attempts, notice>>
    ELSE /\ Len(attempts) < MaxAttempts
         /\ notice' = [kind |-> why, from |-> self, to |-> fb]
         /\ attempts' = Append(attempts, fb)
         /\ self' = fb
         /\ pc' = "open"
         /\ exec_result' = NoResult
         /\ UNCHANGED <<limitVars, outcome>>
\* No clause of run catches the RecursionError of a call nested too deep: it
\* leaves every run on the stack.
Retry(why, fb) ==
  /\ notice' = [kind |-> why, from |-> self, to |-> fb]
  /\ exec_result' = NoResult
  /\ IF Len(attempts) < MaxAttempts
       THEN /\ self' = fb
            /\ timeout' = timeout
            /\ stall_timeout' = stall_timeout
            /\ heartbeat_secs' = heartbeat_secs
            /\ attempts' = Append(attempts, fb)
            /\ pc' = "open"
            /\ UNCHANGED outcome
       ELSE /\ outcome' = [NoOutcome EXCEPT !.kind = "recursion"]
            /\ pc' = "idle"
            /\ UNCHANGED <<self, limitVars, attempts>>

\* run returns a text or raises.
Finish(o) ==
  /\ outcome' = o
  /\ pc' = "idle"
  /\ exec_result' = NoResult
  /\ UNCHANGED <<self, limitVars, attempts, notice>>

\* The choice that prefers the generic fallback.
RateLimitTargetGenericFirst(c) ==
  IF fallback[c] # NoConfig THEN fallback[c] ELSE rate_limit_fallback[c]
\* The rate-limit check left out, so that the exit-code check comes first.
RateLimitTargetNone(c) == NoConfig
\* The rate-limit check made only of an attempt that exited with a non-zero
\* code.
RateLimitTargetOnFailure(c) ==
  IF exec_result.returncode = 0 THEN NoConfig
  ELSE IF rate_limit_fallback[c] # NoConfig THEN rate_limit_fallback[c]
  ELSE fallback[c]
\* Lines 98-99: the reviewer a rate-limited attempt falls back to.
RateLimitTarget(c) ==
  IF rate_limit_fallback[c] # NoConfig THEN rate_limit_fallback[c] ELSE fallback[c]

\* The rate-limit check made on a timed-out attempt's partial output too.
TimeoutTargetRateLimited(c, r) ==
  IF IsRateLimitError(r.output, r.stderr_output)
    THEN RateLimitTarget(c) ELSE fallback[c]
\* Lines 72-95: the reviewer a timed-out attempt falls back to.
TimeoutTarget(c, r) == fallback[c]

\* The exit-code check that takes the rate-limit fallback when there is one.
ExitCodeTargetAny(c, r) ==
  IF r.returncode # 0 THEN RateLimitTarget(c) ELSE NoConfig
\* Lines 125-137: the reviewer an attempt that exited with a non-zero code
\* falls back to.
ExitCodeTarget(c, r) ==
  IF r.returncode # 0 THEN fallback[c] ELSE NoConfig

\* Line 95: "raise" in the except clause: the TimeoutExpired of _execute.
Raised(r) ==
  [kind |-> "timeout", text |-> r.output, stderr |-> r.stderr_output,
   timeout |-> r.timeout_value]

\* The text extracted as the reviewer run was first called on would.
ReturnedByFirstProbe(c, r) ==
  [NoOutcome EXCEPT !.kind = "return",
                    !.text = ExtractReviewerOutput(activity_probe[attempts[1]],
                                                   r.output)]
\* Line 139: the text run returns.
Returned(c, r) ==
  [NoOutcome EXCEPT !.kind = "return",
                    !.text = ExtractReviewerOutput(activity_probe[c], r.output)]

\* Lines 64-139: what run does with what _execute gave.
RunDispatch ==
  /\ pc = "result"
  /\ LET r == exec_result
     IN IF r.kind = "error"
          \* No except clause catches what Popen raised.
          THEN Finish([NoOutcome EXCEPT !.kind = "error"])
        ELSE IF r.kind = "timeout"
          THEN IF TimeoutTarget(self, r) # NoConfig
                 THEN Retry("timeout", TimeoutTarget(self, r))
                 ELSE Finish(Raised(r))
        ELSE IF /\ IsRateLimitError(r.output, r.stderr_output)
                /\ RateLimitTarget(self) # NoConfig
          THEN Retry("rate_limit", RateLimitTarget(self))
        ELSE IF ExitCodeTarget(self, r) # NoConfig
          THEN Retry("exit", ExitCodeTarget(self, r))
        ELSE Finish(Returned(self, r))
  \* _execute's frame is gone.
  /\ loc' = NoLocals
  /\ UNCHANGED <<osVars, heartbeat>>
  /\ UNCHANGED <<cfgVars, loopVars, pureVars>>

\* =========================================================================
\* run_review_loop
\* =========================================================================
\* Lines 1180-1198: the next reviewer's run is called.
LoopCall ==
  /\ loop_pc = "call"
  /\ pc = "idle"
  /\ self' = reviewers[ridx]
  /\ timeout' = args.timeout
  /\ stall_timeout' = args.stall_timeout
  /\ heartbeat_secs' = args.heartbeat_secs
  /\ attempts' = <<reviewers[ridx]>>
  /\ notice' = NoNotice
  /\ outcome' = NoOutcome
  /\ exec_result' = NoResult
  /\ pc' = "open"
  /\ loop_pc' = "running"
  /\ UNCHANGED <<cycle, ridx, saved, osVars, loc, heartbeat>>
  /\ UNCHANGED <<cfgVars, pureVars>>

\* Lines 1199-1219: run has returned or raised TimeoutExpired, the output is
\* saved and the loops go on; another exception leaves run_review_loop.
LoopSave ==
  /\ loop_pc = "running"
  /\ outcome.kind # "none"
  /\ IF outcome.kind \in {"error", "recursion"}
       THEN /\ loop_pc' = "raised"
            /\ UNCHANGED <<cycle, ridx, saved>>
       \* output = exc.output or "" for TimeoutExpired.
       ELSE /\ saved' = outcome.text
            /\ IF ridx < Len(reviewers)
                 THEN /\ ridx' = ridx + 1
                      /\ UNCHANGED cycle
                      /\ loop_pc' = "call"
                 ELSE /\ ridx' = 1
                      /\ cycle' = cycle + 1
                      /\ loop_pc' = IF cycle < cycles THEN "call" ELSE "done"
  /\ UNCHANGED <<runVars, osVars, execVars>>
  /\ UNCHANGED <<cfgVars, pureVars>>

\* =========================================================================
\* The specification of the review loop
\* =========================================================================
\* The activity probe of reviewer c.
ProbeOf(c) ==
  IF c % 3 = 1 THEN "codex_json"
  ELSE IF c % 3 = 2 THEN "claude_stream_json" ELSE "generic"

\* Nothing written, no probe update and no extraction yet.
PureStart ==
  /\ fed = 0
  /\ probe = InitProbeState
  /\ extracted = NoText
  /\ call_result = NoCall
\* No function is called by itself.
NoCalls == call_args = [fn |-> "none"]
PureIdle == stream = <<>> /\ NoCalls /\ PureStart

InitState ==
  /\ loop_pc = "call"
  /\ cycle = 1
  /\ ridx = 1
  /\ saved = <<>>
  /\ self = NoConfig
  /\ timeout = 0
  /\ stall_timeout = 0
  /\ heartbeat_secs = 0
  /\ attempts = <<>>
  /\ notice = NoNotice
  /\ exec_result = NoResult
  /\ outcome = NoOutcome
  /\ procs = <<>>
  /\ stdout_file = <<>>
  /\ stderr_file = <<>>
  /\ handles = {}
  /\ clock = 0
  /\ pc = "idle"
  /\ loc = NoLocals
  /\ heartbeat = NoHeartbeat

\* run_review_loop's timeout, stall_timeout and heartbeat_secs.
Args(t, s, h) == [timeout |-> t, stall_timeout |-> s, heartbeat_secs |-> h]

\* The fallback graphs tried: a reviewer's fallbacks are other reviewers, and
\* the reviewers that no run from the list reaches have none.
RECURSIVE ReachIn(_, _, _, _)
ReachIn(f, r, from, n) ==
  IF n = 0 THEN from
  ELSE LET linked == {f[c] : c \in from} \cup {r[c] : c \in from}
       IN ReachIn(f, r, from \cup (linked \ {NoConfig}), n - 1)
Reachable(f, r, from) == ReachIn(f, r, from, NumConfigs)
Links == [Configs -> Configs \cup {NoConfig}]
Graphs(starts) ==
  {g \in Links \X Links :
     /\ \A c \in Configs : g[1][c] # c /\ g[2][c] # c
     /\ \A c \in Configs \ Reachable(g[1], g[2], starts) :
          g[1][c] = NoConfig /\ g[2][c] = NoConfig}

\* The reviewers reviewer c falls back to.
Successors(c) == {fallback[c], rate_limit_fallback[c]} \ {NoConfig}

\* No reviewer reached from c is reached from its own fallbacks.
Acyclic(c) ==
  \A d \in Reachable(fallback, rate_limit_fallback, {c}) :
    d \notin Reachable(fallback, rate_limit_fallback, Successors(d))

\* What the commands of the reviewers may do.
RunPrograms ==
  { <<Exit(0)>>, <<Exit(1)>>, <<>>,
    <<Out(RateLimitLine), Exit(0)>>, <<Err(RateLimitLine), Exit(1)>> }

\* run on reviewer 1 with a wall-clock timeout, over every fallback graph.
Init ==
  /\ \E g \in Graphs({1}) : fallback = g[1] /\ rate_limit_fallback = g[2]
  /\ activity_probe = [c \in Configs |-> ProbeOf(c)]
  /\ reviewers = <<1>>
  /\ cycles = 1
  /\ args = Args(30, 0, 0)
  /\ procfs = TRUE
  /\ programs = RunPrograms
  /\ InitState
  /\ PureIdle

Next == ProcNext \/ ExecuteNext \/ RunDispatch \/ LoopCall \/ LoopSave

Spec == Init /\ [][Next]_vars

\* -------------------------------------------------------------------------
\* The review loop over two reviewers and up to MaxCycles rounds, each
\* reviewer with the fallbacks of FALLBACK_MAP's shape: 1 and 2 fall back to
\* each other's command under another name (3), which has no fallback.
LoopPrograms == { <<Exit(0)>>, <<Exit(1)>>, <<>>, <<Out(OkLine), Exit(0)>> }

InitLoop ==
  /\ fallback = [c \in Configs |-> IF c = NumConfigs THEN NoConfig ELSE NumConfigs]
  /\ rate_limit_fallback = [c \in Configs |-> NoConfig]
  /\ activity_probe = [c \in Configs |-> ProbeOf(c)]
  /\ reviewers \in {<<1, 2>>, <<2, 1>>}
  /\ cycles \in 1..MaxCycles
  /\ args = Args(30, 0, 0)
  /\ procfs = TRUE
  /\ programs = LoopPrograms
  /\ InitState
  /\ PureIdle

SpecLoop == InitLoop /\ [][Next]_vars

\* -------------------------------------------------------------------------
\* One reviewer without fallbacks, over the limits and the heartbeat periods
\* of Timers, the three probes, and commands that write, use CPU time, exit
\* or hang.
Timers ==
  { Args(120, 0, 0), Args(0, 70, 0), Args(120, 70, 30), Args(60, 100, 0),
    Args(0, 0, 30) }

ExecPrograms ==
  { <<Exit(0)>>,
    <<>>,
    <<Out(OkLine)>>,
    <<Out(ReasoningLine), Out(AgentMessageLine), Exit(0)>>,
    <<Out(SystemLine), Err(OkLine), Exit(1)>>,
    <<Cpu, ChildCpu>>,
    <<Out(<<"C3">>), Err(RateLimitLine)>> }

InitExec ==
  /\ fallback = [c \in Configs |-> NoConfig]
  /\ rate_limit_fallback = [c \in Configs |-> NoConfig]
  /\ activity_probe = [c \in Configs |-> ProbeOf(c)]
  /\ reviewers \in {<<c>> : c \in Configs}
  /\ cycles = 1
  /\ args \in Timers
  /\ procfs \in BOOLEAN
  /\ programs = ExecPrograms
  /\ InitState
  /\ PureIdle

SpecExec == InitExec /\ [][Next]_vars

\* -------------------------------------------------------------------------
\* The same with the time that passes outside the polling wait: the sampling
\* of lines 249-302 (two readings of /proc, or two runs of ps) takes up to
\* MaxLag ticks before the clock is read at line 304, and the clock may tick
\* between that reading and the one at line 223.
LagTimers == { Args(0, 0, 60), Args(120, 0, 60), Args(0, 70, 60) }

LagPrograms == { <<>>, <<Exit(0)>>, <<Out(<<"C3">>), Cpu>> }

LagLimit ==
  IF pc = "sample" THEN loc.now + loc.sleep_time + MaxLag ELSE loc.now + 1

TimePasses ==
  /\ pc \in {"poll", "sample"}
  /\ clock < LagLimit
  /\ clock < MaxLagTime
  /\ clock' = clock + 1
  /\ UNCHANGED <<procs, stdout_file, stderr_file, handles>>
  /\ UNCHANGED <<cfgVars, loopVars, runVars, execVars, pureVars>>

InitLag ==
  /\ fallback = [c \in Configs |-> NoConfig]
  /\ rate_limit_fallback = [c \in Configs |-> NoConfig]
  /\ activity_probe = [c \in Configs |-> ProbeOf(c)]
  /\ reviewers \in {<<c>> : c \in Configs}
  /\ cycles = 1
  /\ args \in LagTimers
  /\ procfs = TRUE
  /\ programs = LagPrograms
  /\ InitState
  /\ PureIdle

NextLag == Next \/ TimePasses

SpecLag == InitLag /\ [][NextLag]_vars

\* The same under the scheduling the code has: the one thread of the review
\* loop, of run and of the supervisor keeps running, and a subprocess sent
\* SIGKILL dies.  (Nothing makes a subprocess take the next step of its
\* program, or die of SIGTERM.)
ProcKilled == ProcDie /\ procs'[pid].returncode = SIGKILL_RC
MainThread == ExecuteNext \/ RunDispatch \/ LoopCall \/ LoopSave

Scheduling == WF_vars(MainThread) /\ WF_vars(ProcKilled)

FairExec == SpecExec /\ Scheduling

\* -------------------------------------------------------------------------
\* One reviewer made by resolve_reviewers from a preset key.
\* PRESETS: the activity probe of each preset.
PRESET_KEYS == {"claude", "codex", "cursor-opus", "cursor-gpt"}
PRESETS ==
  [key \in PRESET_KEYS |->
     CASE key = "claude" -> "claude_stream_json"
       [] key = "codex" -> "codex_json"
       [] OTHER -> "generic"]
FALLBACK_MAP == ("claude" :> "codex") @@ ("codex" :> "cursor-gpt")
RATE_LIMIT_FALLBACK_MAP ==
  ("claude" :> "codex") @@ ("codex" :> "cursor-gpt")
    @@ ("cursor-opus" :> "cursor-gpt") @@ ("cursor-gpt" :> "cursor-opus")

\* The Reviewer objects of one turn of the loop of lines 853-876: 1 is the
\* reviewer appended, 2 the Reviewer made for its fallback and 3 the one made
\* for its rate_limit_fallback (each a new object, with the fields given and
\* None for the rest).
PresetReviewer == 1
FallbackReviewer == 2
RateLimitFallbackReviewer == 3

\* The loop that hands the fallback made the rate-limit fallback made.
ResolveReviewersChained(preset_key, no_fallback) ==
  LET fb == ~no_fallback /\ preset_key \in DOMAIN FALLBACK_MAP
      rl == ~no_fallback /\ preset_key \in DOMAIN RATE_LIMIT_FALLBACK_MAP
  IN [fallback |->
        [c \in Configs |->
           IF c = PresetReviewer /\ fb THEN FallbackReviewer ELSE NoConfig],
      rate_limit_fallback |->
        [c \in Configs |->
           IF c = PresetReviewer /\ rl THEN RateLimitFallbackReviewer
           ELSE IF c = FallbackReviewer /\ fb /\ rl
             THEN RateLimitFallbackReviewer
           ELSE NoConfig],
      activity_probe |->
        [c \in Configs |->
           IF c = PresetReviewer THEN PRESETS[preset_key]
           ELSE IF c = FallbackReviewer /\ fb
             THEN PRESETS[FALLBACK_MAP[preset_key]]
           ELSE IF c = RateLimitFallbackReviewer /\ rl
             THEN PRESETS[RATE_LIMIT_FALLBACK_MAP[preset_key]]
           ELSE "generic"]]
\* resolve_reviewers, lines 859-876, for one preset key.
ResolveReviewers(preset_key, no_fallback) ==
  LET fb == ~no_fallback /\ preset_key \in DOMAIN FALLBACK_MAP
      rl == ~no_fallback /\ preset_key \in DOMAIN RATE_LIMIT_FALLBACK_MAP
  IN [fallback |->
        [c \in Configs |->
           IF c = PresetReviewer /\ fb THEN FallbackReviewer ELSE NoConfig],
      rate_limit_fallback |->
        [c \in Configs |->
           IF c = PresetReviewer /\ rl THEN RateLimitFallbackReviewer
           ELSE NoConfig],
      activity_probe |->
        [c \in Configs |->
           IF c = PresetReviewer THEN PRESETS[preset_key]
           ELSE IF c = FallbackReviewer /\ fb
             THEN PRESETS[FALLBACK_MAP[preset_key]]
           ELSE IF c = RateLimitFallbackReviewer /\ rl
             THEN PRESETS[RATE_LIMIT_FALLBACK_MAP[preset_key]]
           ELSE "generic"]]

InitPreset ==
  /\ \E preset_key \in PRESET_KEYS, no_fallback \in BOOLEAN :
        /\ call_args = [fn |-> "resolve_reviewers", preset_key |-> preset_key,
                        no_fallback |-> no_fallback]
        /\ \E made \in {ResolveReviewers(preset_key, no_fallback)} :
              /\ fallback = made.fallback
              /\ rate_limit_fallback = made.rate_limit_fallback
              /\ activity_probe = made.activity_probe
  /\ reviewers = <<PresetReviewer>>
  /\ cycles = 1
  /\ args = Args(30, 0, 0)
  /\ procfs = TRUE
  /\ programs = RunPrograms
  /\ InitState
  /\ stream = <<>>
  /\ PureStart

SpecPreset == InitPreset /\ [][Next]_vars

\* -------------------------------------------------------------------------
\* run on reviewer 1 (codex_json), whose fallback 2 (claude_stream_json)
\* falls back to 3 (generic), over commands that print the final message of
\* either format and exit 0 or 1.
TextPrograms ==
  { <<Out(AgentMessageLine), Exit(0)>>, <<Out(AgentMessageLine), Exit(1)>>,
    <<Out(ResultLine), Exit(0)>>, <<Out(ResultLine), Exit(1)>>,
    <<Out(RateLimitLine), Exit(0)>>, <<>> }

InitText ==
  /\ fallback = [c \in Configs |-> IF c < NumConfigs THEN c + 1 ELSE NoConfig]
  /\ rate_limit_fallback =
       [c \in Configs |-> IF c = 1 THEN NumConfigs ELSE NoConfig]
  /\ activity_probe = [c \in Configs |-> ProbeOf(c)]
  /\ reviewers = <<1>>
  /\ cycles = 1
  /\ args = Args(30, 0, 0)
  /\ procfs = TRUE
  /\ programs = TextPrograms
  /\ InitState
  /\ PureIdle

SpecText == InitText /\ [][Next]_vars

\* run on reviewer 1 over the fallback graphs without a cycle, under the same
\* scheduling.
InitAcyclic == Init /\ Acyclic(reviewers[1])

FairAcyclic == InitAcyclic /\ [][Next]_vars /\ Scheduling

\* -------------------------------------------------------------------------
\* A probe by itself: the subprocess appends the bytes of stream to its
\* stdout, and _update_probe_state is called whenever some have been added.
ProbeBytes ==
  {"{", "turn.completed", "agent_message", "}", "\n", "C2", "85"}

InitProbe ==
  /\ fallback = [c \in Configs |-> NoConfig]
  /\ rate_limit_fallback = [c \in Configs |-> NoConfig]
  /\ activity_probe = [c \in Configs |-> ProbeOf(c)]
  /\ reviewers \in {<<c>> : c \in {d \in Configs : ProbeOf(d) # "generic"}}
  /\ cycles = 1
  /\ args = Args(0, 0, 0)
  /\ procfs = TRUE
  /\ programs = {}
  /\ InitState
  /\ PureStart
  /\ NoCalls
  /\ stream \in UNION {[1..n -> ProbeBytes] : n \in 0..MaxStream}

\* Lines 283-287 of _execute with the write that precedes them: the file has
\* grown to n bytes when the probe state is updated.
ProbeUpdate ==
  /\ \E n \in (fed + 1)..Len(stream) :
       /\ fed' = n
       /\ probe' = UpdateProbeState(activity_probe[reviewers[1]],
                                    SubSeq(stream, 1, n), probe)
  /\ UNCHANGED <<stream, extracted, call_args, call_result>>
  /\ UNCHANGED <<cfgVars, loopVars, runVars, osVars, execVars>>

SpecProbe == InitProbe /\ [][ProbeUpdate]_vars

\* -------------------------------------------------------------------------
\* An extractor by itself, on captured outputs of up to MaxLines lines.
NelLine == <<"{", "agent_message", "a", "C2", "85", "b", "}", "\n">>
ExtractLines ==
  { AgentMessageLine, ReasoningLine, OkLine, NelLine, ResultLine,
    <<"{", "assistant_message", "y", "o", "}", "\n">>,
    <<"{", "agent_message.notext", "}", "\n">>,
    <<"{", "item.started", "n", "o", "}", "\n">>,
    <<" ", "{", "agent_message", "}", " ", "\r", "\n">>,
    <<"{", "agent_message", "c", "u", "t", "\n">>,
    <<"{", "assistant", "t", "}", "\n">>,
    <<"{", "agent_message", "e", "n", "d", "}">>,
    <<"{", "assistant.blocks", "p", "}", "\n">>,
    <<"{", "assistant.nocontent", "}", "\n">>,
    <<"{", "result.null", "}", "\n">>,
    <<"{", "result", "C2", "85", "}", "\n">> }

InitExtract ==
  /\ fallback = [c \in Configs |-> NoConfig]
  /\ rate_limit_fallback = [c \in Configs |-> NoConfig]
  /\ activity_probe = [c \in Configs |-> ProbeOf(c)]
  /\ reviewers \in {<<c>> : c \in Configs}
  /\ cycles = 1
  /\ args = Args(0, 0, 0)
  /\ procfs = TRUE
  /\ programs = {}
  /\ InitState
  /\ PureStart
  /\ NoCalls
  /\ \E ls \in UNION {[1..n -> ExtractLines] : n \in 0..MaxLines} :
       stream = Concat(ls)

\* Lines 360 and 139: the stdout file is read back and the text extracted.
Extract ==
  /\ extracted = NoText
  /\ extracted' = ExtractReviewerOutput(activity_probe[reviewers[1]],
                                        ReadText(stream))
  /\ UNCHANGED <<stream, fed, probe, call_args, call_result>>
  /\ UNCHANGED <<cfgVars, loopVars, runVars, osVars, execVars>>

SpecExtract == InitExtract /\ [][Extract]_vars

\* -------------------------------------------------------------------------
\* A codex_json probe and the Format A extractor on the same captured output:
\* up to MaxLines complete item.completed lines, scanned by one probe update
\* and given to the extractor.
CompletedLines ==
  { ReasoningLine, AgentMessageLine, NelLine,
    <<"{", "assistant_message", "h", "e", "l", "l", "o", "}", "\n">>,
    <<"{", "tool_call", "l", "s", "}", "\n">>,
    <<"{", "agent_message", "}", "\n">>,
    <<"{", "agent_message.notext", "}", "\n">>,
    <<"{", "assistant_message.textnum", "}", "\n">>,
    <<"{", "item.completed.noitem", "}", "\n">> }

InitAgree ==
  /\ fallback = [c \in Configs |-> NoConfig]
  /\ rate_limit_fallback = [c \in Configs |-> NoConfig]
  /\ activity_probe = [c \in Configs |-> ProbeOf(c)]
  /\ reviewers = <<1>>
  /\ cycles = 1
  /\ args = Args(0, 0, 0)
  /\ procfs = TRUE
  /\ programs = {}
  /\ InitState
  /\ PureStart
  /\ NoCalls
  /\ \E ls \in UNION {[1..n -> CompletedLines] : n \in 0..MaxLines} :
       stream = Concat(ls)

\* Lines 283-285 of _execute once the subprocess has written all of its
\* output: one update of the probe state over the whole file.
ProbeScan ==
  /\ fed = 0
  /\ fed' = Len(stream)
  /\ probe' = UpdateProbeState(activity_probe[reviewers[1]], stream, probe)
  /\ UNCHANGED <<stream, extracted, call_args, call_result>>
  /\ UNCHANGED <<cfgVars, loopVars, runVars, osVars, execVars>>

SpecAgree == InitAgree /\ [][ProbeScan \/ Extract]_vars

\* -------------------------------------------------------------------------
\* _is_rate_limit_error by itself, on a stdout and a stderr made of up to two
\* of these pieces each: a pattern may lie in one stream, across two pieces,
\* or across the end of stdout and the start of stderr.
RatePieces ==
  { <<"R", "A", "T", "E">>, <<"_", "l", "i", "m", "i", "t">>,
    <<" ", "L", "i", "m", "i", "t">>, <<"U", "s", "a", "g", "e">>,
    <<"H", "T", "T", "P", " ", "4", "2", "9">>, <<"4", "2", "9", " ">>,
    <<"T", "o", "o", " ", "M", "a", "n", "y">>,
    <<" ", "R", "E", "Q", "U", "E", "S", "T", "S">>,
    <<"\n">>, <<"o", "k">> }
RateTexts == {Concat(ps) : ps \in UNION {[1..n -> RatePieces] : n \in 0..2}}

InitRate ==
  /\ fallback = [c \in Configs |-> NoConfig]
  /\ rate_limit_fallback = [c \in Configs |-> NoConfig]
  /\ activity_probe = [c \in Configs |-> ProbeOf(c)]
  /\ reviewers = <<1>>
  /\ cycles = 1
  /\ args = Args(0, 0, 0)
  /\ procfs = TRUE
  /\ programs = {}
  /\ InitState
  /\ PureStart
  /\ stream = <<>>
  /\ \E out \in RateTexts, err \in RateTexts :
       call_args = [fn |-> "_is_rate_limit_error", stdout |-> out, stderr |-> err]

\* Line 98: _is_rate_limit_error(raw_output, stderr_output).
Detect ==
  /\ call_args.fn = "_is_rate_limit_error"
  /\ call_result = NoCall
  /\ call_result' =
       CallValue(IsRateLimitError(call_args.stdout, call_args.stderr))
  /\ UNCHANGED <<stream, fed, probe, extracted, call_args>>
  /\ UNCHANGED <<cfgVars, loopVars, runVars, osVars, execVars>>

SpecRate == InitRate /\ [][Detect]_vars

\* =========================================================================
\* validate_track_a_contracts.py
\* =========================================================================
\* The required keys of each kind of JSON file, in the order of sorted().
REQUIRED_HANDOFF_KEYS ==
  <<"generated_at_utc", "git_commit", "inputs", "notes", "outputs", "phase",
    "status">>
REQUIRED_RUN_MANIFEST_KEYS ==
  <<"batch_size", "command", "cwd", "env", "gpu_id", "mujoco_gl", "n_episodes",
    "policy_path", "retry_index", "run_id", "schema_version", "seed",
    "start_time_utc", "task_suite">>
REQUIRED_RESULT_KEYS ==
  <<"duration_sec", "end_time_utc", "episodes", "error_message", "exit_code",
    "run_id", "schema_version", "status", "stderr_log", "stdout_log",
    "success_rate", "successes", "video_path">>
REQUIRED_PREFLIGHT_KEYS ==
  <<"backend_attempts", "checks", "display_env", "gpu_count", "gpu_names",
    "lerobot_eval_help_ok", "lerobot_import_ok", "mujoco_gl_effective",
    "mujoco_gl_requested", "policy_resolve_ok", "python_version",
    "schema_version">>
CLI_CAPABILITIES_KEYS ==
  <<"generated_at_utc", "schema_version", "supported_flags", "version_text">>

\* The paths under the root.
HandoffPath(n) ==
  CASE n = 1 -> "artifacts/state/phase1_handoff.json"
    [] n = 2 -> "artifacts/state/phase2_handoff.json"
    [] n = 3 -> "artifacts/state/phase3_handoff.json"
    [] n = 4 -> "artifacts/state/phase4_handoff.json"
    [] n = 5 -> "artifacts/state/phase5_handoff.json"
PreflightPath == "artifacts/preflight/preflight.json"
CliPath == "artifacts/state/cli_capabilities.json"
ManifestPath == "artifacts/runs/baseline_b1_e2/run_manifest.json"
ResultPath == "artifacts/runs/baseline_b1_e2/result.json"

\* A file under the root: whether it exists and, for a JSON file, the keys of
\* its object and the values the validator reads (a key the object lacks
\* reads as None, as dict.get gives).
File(exists, keys, status, gpu_count, mujoco_gl_effective) ==
  [exists |-> exists, keys |-> keys, status |-> status,
   gpu_count |-> gpu_count, mujoco_gl_effective |-> mujoco_gl_effective]
Get(file, key, value) == IF key \in file.keys THEN value ELSE "None"

\* _expect_file(path, errors): the errors it appends.
ExpectFile(root, path) ==
  IF ~root[path].exists THEN << <<"Missing required file", path>> >> ELSE <<>>

\* _expect_keys(path, required, errors): the errors it appends.
ExpectKeys(root, path, required) ==
  IF ~root[path].exists THEN << <<"Missing required file", path>> >>
  ELSE LET missing == SelectSeq(required, LAMBDA key : key \notin root[path].keys)
       IN [i \in DOMAIN missing |-> <<"Missing key", missing[i], path>>]

\* The check that takes only the status fail for a failure.
RequirePassUnlessFail(root, path, message) ==
  IF /\ root[path].exists
     /\ root[path].keys # {}
     /\ Get(root[path], "status", root[path].status) = "fail"
    THEN << <<message>> >> ELSE <<>>
\* "if handoff and handoff.get("status") != "pass": errors.append(message)":
\* _expect_keys gave an object that is not empty, and its status is not pass.
RequirePass(root, path, message) ==
  IF /\ root[path].exists
     /\ root[path].keys # {}
     /\ Get(root[path], "status", root[path].status) # "pass"
    THEN << <<message>> >> ELSE <<>>

\* The result of a validator: the errors and the warnings it appended, each a
\* message in its parts (the text, then what is formatted into it).
Found(errors, warnings) == [errors |-> errors, warnings |-> warnings]

ValidatePhase1(root) ==
  Found(ExpectFile(root, "configs/eval_matrix.csv")
          \o ExpectFile(root, "configs/run_schema.json")
          \o ExpectKeys(root, CliPath, CLI_CAPABILITIES_KEYS)
          \o ExpectKeys(root, HandoffPath(1), REQUIRED_HANDOFF_KEYS)
          \o RequirePass(root, HandoffPath(1),
                         "phase1_handoff.json status must be 'pass'"),
        <<>>)

ValidatePhase2(root) ==
  LET preflight == root[PreflightPath]
      read == preflight.exists /\ preflight.keys # {}
      mujoco == Get(preflight, "mujoco_gl_effective", preflight.mujoco_gl_effective)
      gpus == Get(preflight, "gpu_count", preflight.gpu_count)
      handoff == root[HandoffPath(2)]
  IN Found(ExpectKeys(root, HandoffPath(1), REQUIRED_HANDOFF_KEYS)
             \o RequirePass(root, HandoffPath(1),
                            "Phase 2 requires phase1_handoff status=pass")
             \o ExpectKeys(root, PreflightPath, REQUIRED_PREFLIGHT_KEYS)
             \o (IF read /\ mujoco \notin {"egl", "glx", "None"}
                   THEN << <<"preflight.mujoco_gl_effective must be egl|glx|null">> >>
                   ELSE <<>>)
             \o ExpectKeys(root, HandoffPath(2), REQUIRED_HANDOFF_KEYS)
             \o (IF /\ handoff.exists
                     /\ handoff.keys # {}
                     /\ Get(handoff, "status", handoff.status)
                          \notin {"pass", "blocked", "partial"}
                   THEN << <<"phase2_handoff status must be pass|blocked|partial">> >>
                   ELSE <<>>),
           IF read /\ gpus # "8"
             THEN << <<"Expected gpu_count=8 but found", gpus>> >> ELSE <<>>)

ValidatePhase3(root) ==
  Found(ExpectKeys(root, HandoffPath(2), REQUIRED_HANDOFF_KEYS)
          \o RequirePass(root, HandoffPath(2),
                         "Phase 3 requires phase2_handoff status=pass")
          \o ExpectKeys(root, ManifestPath, REQUIRED_RUN_MANIFEST_KEYS)
          \o ExpectKeys(root, ResultPath, REQUIRED_RESULT_KEYS)
          \o ExpectFile(root, "artifacts/runs/baseline_b1_e2/stdout.log")
          \o ExpectFile(root, "artifacts/runs/baseline_b1_e2/stderr.log")
          \o ExpectFile(root, "artifacts/state/rows/baseline_b1_e2.json")
          \o ExpectFile(root, "artifacts/summary/baseline_summary.csv")
          \o ExpectFile(root, "artifacts/summary/baseline_summary.md")
          \o ExpectKeys(root, HandoffPath(3), REQUIRED_HANDOFF_KEYS),
        <<>>)

ValidatePhase4(root) ==
  Found(ExpectKeys(root, HandoffPath(3), REQUIRED_HANDOFF_KEYS)
          \o RequirePass(root, HandoffPath(3),
                         "Phase 4 requires phase3_handoff status=pass")
          \o ExpectFile(root, "artifacts/summary/all_runs.csv")
          \o ExpectFile(root, "artifacts/summary/all_runs.md")
          \o ExpectFile(root, "artifacts/summary/failures.csv")
          \o ExpectKeys(root, HandoffPath(4), REQUIRED_HANDOFF_KEYS),
        <<>>)

ValidatePhase5(root) ==
  Found(ExpectKeys(root, HandoffPath(1), REQUIRED_HANDOFF_KEYS)
          \o ExpectKeys(root, HandoffPath(2), REQUIRED_HANDOFF_KEYS)
          \o ExpectKeys(root, HandoffPath(3), REQUIRED_HANDOFF_KEYS)
          \o ExpectKeys(root, HandoffPath(4), REQUIRED_HANDOFF_KEYS)
          \o ExpectKeys(root, HandoffPath(5), REQUIRED_HANDOFF_KEYS)
          \o ExpectFile(root, "runbook.md")
          \o ExpectFile(root, "results.md"),
        <<>>)

\* The if/elif chain of validate_phase.
PhaseFound(phase, root) ==
  CASE phase = "phase1" -> ValidatePhase1(root)
    [] phase = "phase2" -> ValidatePhase2(root)
    [] phase = "phase3" -> ValidatePhase3(root)
    [] phase = "phase4" -> ValidatePhase4(root)
    [] phase = "phase5" -> ValidatePhase5(root)
    [] phase = "all" ->
         Found(ValidatePhase1(root).errors \o ValidatePhase2(root).errors
                 \o ValidatePhase3(root).errors \o ValidatePhase4(root).errors
                 \o ValidatePhase5(root).errors,
               ValidatePhase2(root).warnings)
    [] OTHER -> Found(<< <<"Unsupported phase", phase>> >>, <<>>)

\* validate_phase(phase, root, strict): (errors, warnings).
ValidatePhase(phase, root, strict) ==
  LET found == PhaseFound(phase, root)
  IN IF strict /\ found.warnings # <<>>
       THEN Found(found.errors \o
                    [i \in DOMAIN found.warnings |->
                       <<"strict-warning">> \o found.warnings[i]],
                  found.warnings)
       ELSE found

\* -------------------------------------------------------------------------
\* validate_phase by itself, on the roots that differ from a complete one in
\* up to MaxFaults files.
PlainPaths ==
  { "configs/eval_matrix.csv", "configs/run_schema.json",
    "artifacts/runs/baseline_b1_e2/stdout.log",
    "artifacts/runs/baseline_b1_e2/stderr.log",
    "artifacts/state/rows/baseline_b1_e2.json",
    "artifacts/summary/baseline_summary.csv",
    "artifacts/summary/baseline_summary.md",
    "artifacts/summary/all_runs.csv", "artifacts/summary/all_runs.md",
    "artifacts/summary/failures.csv", "runbook.md", "results.md" }
HandoffPaths == {HandoffPath(n) : n \in 1..5}
Paths ==
  PlainPaths \cup HandoffPaths
    \cup {PreflightPath, CliPath, ManifestPath, ResultPath}

\* The keys required of the JSON file at a path, as a set.
Required(path) ==
  LET keys == IF path \in HandoffPaths THEN REQUIRED_HANDOFF_KEYS
              ELSE IF path = PreflightPath THEN REQUIRED_PREFLIGHT_KEYS
              ELSE IF path = CliPath THEN CLI_CAPABILITIES_KEYS
              ELSE IF path = ManifestPath THEN REQUIRED_RUN_MANIFEST_KEYS
              ELSE IF path = ResultPath THEN REQUIRED_RESULT_KEYS
              ELSE <<>>
  IN {keys[i] : i \in DOMAIN keys}

\* The complete root: every file, every key, every status pass, eight GPUs.
GoodFile(path) == File(TRUE, Required(path), "pass", "8", "egl")
GoodRoot == [path \in Paths |-> GoodFile(path)]

\* What may be wrong with the file at a path.
Faults(path) ==
  {[GoodFile(path) EXCEPT !.exists = FALSE]}
    \cup (IF Required(path) = {} THEN {}
          ELSE {[GoodFile(path) EXCEPT !.keys = @ \ {k}] : k \in Required(path)}
                 \cup {[GoodFile(path) EXCEPT !.keys = {}],
                       [GoodFile(path) EXCEPT !.keys = {"comment"}]})
    \cup (IF path \in HandoffPaths
            THEN {[GoodFile(path) EXCEPT !.status = s] :
                    s \in {"blocked", "partial", "fail"}}
            ELSE {})
    \cup (IF path = PreflightPath
            THEN {[GoodFile(path) EXCEPT !.gpu_count = "4"],
                  [GoodFile(path) EXCEPT !.mujoco_gl_effective = "osmesa"],
                  [GoodFile(path) EXCEPT !.mujoco_gl_effective = "None"]}
            ELSE {})

\* The faults tried, each a path and the file there.
FaultsTried ==
  UNION {{<<path, file>> : file \in Faults(path)} :
           path \in {HandoffPath(1), HandoffPath(2), HandoffPath(3),
                     PreflightPath, ResultPath, "artifacts/summary/all_runs.md"}}

RECURSIVE FaultyRoots(_)
\* The roots with up to n files at fault.
FaultyRoots(n) ==
  IF n = 0 THEN {GoodRoot}
  ELSE FaultyRoots(n - 1) \cup
         {[root EXCEPT ![fault[1]] = fault[2]] :
            root \in FaultyRoots(n - 1), fault \in FaultsTried}

InitValidate ==
  /\ fallback = [c \in Configs |-> NoConfig]
  /\ rate_limit_fallback = [c \in Configs |-> NoConfig]
  /\ activity_probe = [c \in Configs |-> ProbeOf(c)]
  /\ reviewers = <<1>>
  /\ cycles = 1
  /\ args = Args(0, 0, 0)
  /\ procfs = TRUE
  /\ programs = {}
  /\ InitState
  /\ PureStart
  /\ stream = <<>>
  /\ \E phase \in {"phase1", "phase2", "phase3", "phase4", "phase5", "all",
                    "phase6"},
        root \in FaultyRoots(MaxFaults), strict \in BOOLEAN :
       call_args = [fn |-> "validate_phase", phase |-> phase, root |-> root,
                    strict |-> strict]

\* main: validate_phase(args.phase, args.root, args.strict).
Validate ==
  /\ call_args.fn = "validate_phase"
  /\ call_result = NoCall
  /\ call_result' =
       CallValue(ValidatePhase(call_args.phase, call_args.root, call_args.strict))
  /\ UNCHANGED <<stream, fed, probe, extracted, call_args>>
  /\ UNCHANGED <<cfgVars, loopVars, runVars, osVars, execVars>>

SpecValidate == InitValidate /\ [][Validate]_vars

\* =========================================================================
\* The classification of one parsed object
\* =========================================================================
\* _extract_probe_event by itself, on objects whose type, subtype, nested
\* item type and nested event type are missing, empty, known to a probe or
\* unknown to it; a subtype may have whitespace in it or be longer than a
\* label.
TopTypes ==
  {Absent, "", " ", "thread.started", "turn.started", "item.started",
   "turn.completed", "thread.completed", "error", "turn.failed",
   "item.completed", "result", "assistant", "system", "stream_event",
   "tool.progress"}
Subtypes ==
  {Absent, "", "init", " api  retry ",
   "subtype-01234567890123456789012345678901234567890123456789012345678901234567890123456789-end"}
ItemTypes ==
  {Absent, "", "reasoning", "tool_call", "tool_result", "agent_message",
   "assistant_message", "file_change"}
EventTypes == {Absent, "", "message_stop", "content_block_delta"}
ClassifiedObjects ==
  {Object(ty, st, ity # Absent, ity, FALSE, <<>>, FALSE, <<>>, FALSE, <<>>, ety) :
     ty \in TopTypes, st \in Subtypes, ity \in ItemTypes, ety \in EventTypes}
  \cup {Object(ty, Absent, TRUE, Absent, FALSE, <<>>, FALSE, <<>>, FALSE, <<>>, Absent) :
          ty \in TopTypes}

InitClassify ==
  /\ fallback = [c \in Configs |-> NoConfig]
  /\ rate_limit_fallback = [c \in Configs |-> NoConfig]
  /\ activity_probe = [c \in Configs |-> ProbeOf(c)]
  /\ reviewers = <<1>>
  /\ cycles = 1
  /\ args = Args(0, 0, 0)
  /\ procfs = TRUE
  /\ programs = {}
  /\ InitState
  /\ PureStart
  /\ stream = <<>>
  /\ \E p \in ProbeKinds, obj \in ClassifiedObjects :
       call_args = [fn |-> "_extract_probe_event", activity_probe |-> p,
                    obj |-> obj]

\* Line 460: _extract_probe_event(activity_probe, obj).
Classify ==
  /\ call_args.fn = "_extract_probe_event"
  /\ call_result = NoCall
  /\ call_result' =
       CallValue(ExtractProbeEvent(call_args.activity_probe, call_args.obj))
  /\ UNCHANGED <<stream, fed, probe, extracted, call_args>>
  /\ UNCHANGED <<cfgVars, loopVars, runVars, osVars, execVars>>

SpecClassify == InitClassify /\ [][Classify]_vars

\* =========================================================================
\* One line given to a probe
\* =========================================================================
\* The loop body of _update_probe_state by itself, on one raw line and a
\* state in which events may have been counted before.
ProbedLines ==
  { <<"{", "turn.started", "}", "\n">>,
    <<" ", "{", "turn.completed", "}", " ", "\r", "\n">>,
    <<"{", "turn.failed", "}", "\n">>,
    <<"{", "reasoning", "h", "i", "}", "\n">>,
    <<"{", "agent_message", "h", "i", "}", "\n">>,
    <<"{", "item.completed.noitem", "}", "\n">>,
    <<"{", "system.init", "}", "\n">>,
    <<"{", "stream.stop", "}", "\n">>,
    <<"{", "stream.delta", "}", "\n">>,
    <<"{", "result", "o", "k", "}", "\n">>,
    <<"{", "assistant", "o", "k", "}", "\n">>,
    <<"{", "notype", "x", "}", "\n">>,
    <<"o", "k", "\n">>,
    <<"\n">>,
    <<"o", "k", "{", "turn.started", "}", "\n">>,
    <<"{", "turn.started", "\n">>,
    <<"{", "turn.started", "}", "}", "\n">>,
    <<"{", "reasoning", BigInt, "}", "\n">> }
ProbedStates ==
  {[InitProbeState EXCEPT !.progress_count = pc0, !.final_count = fc0,
                          !.last_progress = pl, !.last_final = fl] :
     pc0 \in 0..1, fc0 \in 0..1,
     pl \in {Absent, "turn.started"}, fl \in {Absent, "turn.completed"}}

InitLine ==
  /\ fallback = [c \in Configs |-> NoConfig]
  /\ rate_limit_fallback = [c \in Configs |-> NoConfig]
  /\ activity_probe = [c \in Configs |-> ProbeOf(c)]
  /\ reviewers = <<1>>
  /\ cycles = 1
  /\ args = Args(0, 0, 0)
  /\ procfs = TRUE
  /\ programs = {}
  /\ InitState
  /\ PureStart
  /\ stream = <<>>
  /\ \E p \in ProbeKinds \ {"generic"}, state \in ProbedStates,
        raw_line \in ProbedLines :
       call_args = [fn |-> "_update_probe_state.line", activity_probe |-> p,
                    state |-> state, raw_line |-> raw_line]

\* Lines 453-469: one pass of the loop "for raw_line in lines".
LineStep ==
  /\ call_args.fn = "_update_probe_state.line"
  /\ call_result = NoCall
  /\ call_result' =
       CallValue(ProbeLineCall(call_args.activity_probe, call_args.state,
                               call_args.raw_line))
  /\ UNCHANGED <<stream, fed, probe, extracted, call_args>>
  /\ UNCHANGED <<cfgVars, loopVars, runVars, osVars, execVars>>

SpecLine == InitLine /\ [][LineStep]_vars

\* =========================================================================
\* Properties
\* =========================================================================
\* run is about to act on what _execute gave, at any depth of the calls of
\* run by run.
DispatchingAtAnyDepth == pc = "result" /\ pc' # "result"
\* The same where another call of run can still be made: the fallback rules
\* say which call run makes, and the call is refused at the recursion limit.
Dispatching == DispatchingAtAnyDepth /\ Len(attempts) < MaxAttempts

\* run goes on with reviewer fb, with the limits it was called with.
Retried(fb) ==
  /\ fb # NoConfig
  /\ self' = fb
  /\ attempts' = Append(attempts, fb)
  /\ pc' = "open"
  /\ outcome' = NoOutcome
  /\ timeout' = timeout
  /\ stall_timeout' = stall_timeout
  /\ heartbeat_secs' = heartbeat_secs

\* run returns the text extracted from the stdout of the attempt just made.
ReturnedOwnText ==
  /\ outcome'.kind = "return"
  /\ outcome'.text =
       ExtractReviewerOutput(activity_probe[self], ReadText(stdout_file))
  /\ attempts' = attempts

\* C1: for a reviewer without a generic fallback, an attempt in which the
\* supervisor found a limit reached (the wall-clock timeout or the stall
\* timeout) while the subprocess had not exited makes run raise a timeout
\* failure, never return a text, and the failure carries the whole of what
\* the subprocess wrote to its stdout and its stderr, as read back from the
\* two files: something whenever the subprocess wrote something.
C1_TimeoutCarriesOutput ==
  [][(DispatchingAtAnyDepth /\ loc.site # "none" /\ fallback[self] = NoConfig)
       => /\ outcome'.kind = "timeout"
          /\ outcome'.text = ReadText(stdout_file)
          /\ outcome'.stderr = ReadText(stderr_file)
          /\ (stdout_file # <<>> => outcome'.text # <<>>)
          /\ (stderr_file # <<>> => outcome'.stderr # <<>>)]_vars

\* A stall timeout raised with what a hung subprocess had written to both
\* streams.
C1_Witness ==
  /\ outcome.kind = "timeout"
  /\ outcome.timeout = stall_timeout
  /\ outcome.text # <<>>
  /\ outcome.stderr # <<>>
  /\ fallback[self] = NoConfig

\* A subprocess that is running, will do nothing more by itself, and is
\* watched by the polling loop with a stall timeout, early enough for the
\* clock of the model to reach the limit.
HungQuiet ==
  /\ pc \in {"poll", "wait", "sample"}
  /\ Alive(procs[pid])
  /\ procs[pid].program = <<>>
  /\ stall_timeout > 0
  /\ clock + stall_timeout + 2 * POLL_INTERVAL <= MaxTime

\* C2: with a stall timeout configured, a subprocess that stays alive and
\* shows no more activity (no growth of the logs, of its CPU time, of its
\* tree's CPU time, of the probe's progress count) is eventually terminated
\* and _execute reports a timeout, with or without a wall-clock timeout; the
\* timeout reported is the stall timeout when there is no wall-clock one.
C2_StallEventuallyTimesOut ==
  HungQuiet ~> (/\ pc = "result"
                /\ exec_result.kind = "timeout"
                /\ ~Alive(procs[pid])
                /\ (timeout = 0 => exec_result.timeout_value = stall_timeout))

\* A stall reported although no wall-clock timeout is configured.
C2_Witness ==
  /\ pc = "result"
  /\ exec_result.kind = "timeout"
  /\ exec_result.timeout_value = stall_timeout
  /\ loc.site = "stall"
  /\ timeout = 0
  /\ ~Alive(procs[pid])

\* The attempt just made ended without a timeout and a rate-limit pattern is
\* in its stdout or its stderr.
RateLimited ==
  /\ exec_result.kind = "ok"
  /\ IsRateLimitError(ReadText(stdout_file), ReadText(stderr_file))

\* C3: after an attempt that ended without a timeout and whose output has a
\* rate-limit pattern, run goes on with the reviewer's rate_limit_fallback if
\* it has one (whatever its fallback is), with its fallback if it has only
\* that, and, with neither, makes no further attempt for the rate limit: the
\* exit-code check then finds no fallback and the attempt's own text is
\* returned.
C3_RateLimitFallbackOrder ==
  [][(Dispatching /\ RateLimited)
       => IF rate_limit_fallback[self] # NoConfig
            THEN Retried(rate_limit_fallback[self])
          ELSE IF fallback[self] # NoConfig
            THEN Retried(fallback[self])
          ELSE ReturnedOwnText]_vars

\* A rate-limited attempt went on with the rate_limit_fallback of a reviewer
\* that has another reviewer as its fallback.
C3_Witness ==
  /\ notice.kind = "rate_limit"
  /\ notice.to = rate_limit_fallback[notice.from]
  /\ fallback[notice.from] # NoConfig
  /\ fallback[notice.from] # notice.to
  /\ self = notice.to

\* C4: after an attempt that exited with a non-zero code (and that the
\* rate-limit check did not send elsewhere), run goes on with the reviewer's
\* fallback if it has one, so that what it returns is what the fallback's run
\* returns and not the attempt's output; without a fallback it returns the
\* text extracted from the attempt's stdout.
C4_NonZeroExit ==
  [][(/\ Dispatching
      /\ exec_result.kind = "ok"
      /\ exec_result.returncode # 0
      /\ ~(/\ RateLimited
           /\ (rate_limit_fallback[self] # NoConfig \/ fallback[self] # NoConfig)))
       => IF fallback[self] # NoConfig
            THEN Retried(fallback[self])
            ELSE ReturnedOwnText]_vars

\* Both cases have happened: a failed attempt was followed by the fallback's,
\* and the fallback's attempt, failed too, gave its own text.
C4_Witness ==
  /\ notice.kind = "exit"
  /\ notice.to = fallback[notice.from]
  /\ self = notice.to
  /\ fallback[self] = NoConfig
  /\ outcome.kind = "return"
  /\ Len(procs) = 2
  /\ procs[2].returncode = 1

\* C5: after an attempt that timed out, run goes on with the reviewer's
\* fallback, called with the same timeout, stall_timeout and heartbeat_secs,
\* if it has one; without one the timeout failure is raised to the caller,
\* and no other attempt is made, also when the reviewer has a
\* rate_limit_fallback and the partial output has a rate-limit pattern.
C5_TimeoutFallback ==
  [][(Dispatching /\ exec_result.kind = "timeout")
       => IF fallback[self] # NoConfig
            THEN Retried(fallback[self])
            ELSE /\ outcome'.kind = "timeout"
                 /\ outcome'.text = exec_result.output
                 /\ attempts' = attempts
                 /\ self' = self]_vars

\* A timeout failure was raised for a reviewer with a rate_limit_fallback,
\* with a rate-limit pattern in the partial output, after the fallback of
\* another reviewer had been tried for a timeout.
C5_Witness ==
  /\ outcome.kind = "timeout"
  /\ rate_limit_fallback[self] # NoConfig
  /\ IsRateLimitError(outcome.text, outcome.stderr)
  /\ notice.kind = "timeout"
  /\ notice.to = self

\* C6: run raises nothing but a timeout failure, and that only for a
\* reviewer whose attempt timed out and that has no fallback; whatever else
\* goes wrong in an attempt, run returns a text.
C6_OnlyTimeoutsRaised ==
  /\ outcome.kind \in {"none", "return", "timeout"}
  /\ outcome.kind = "timeout" => fallback[self] = NoConfig

RECURSIVE LongestPath(_, _)
\* The length (in links) of the longest fallback path from c of at most n
\* links.
LongestPath(c, n) ==
  IF n = 0 \/ Successors(c) = {} THEN 0
  ELSE LET lengths == {LongestPath(d, n - 1) : d \in Successors(c)}
       IN 1 + CHOOSE k \in lengths : \A j \in lengths : j <= k

\* run has been called on a reviewer whose fallback graph has no cycle.
AcyclicRun == attempts # <<>> /\ Acyclic(attempts[1])

\* C7: when the fallback graph reachable from the reviewer run is called on
\* has no cycle (and every attempt ends, as it does under a wall-clock
\* timeout), run makes at most as many attempts as the longest fallback path
\* from the reviewer has links, plus one, no reviewer is attempted twice, and
\* run ends: it returns or raises.
C7_AcyclicRunTerminates ==
  /\ [](AcyclicRun =>
          /\ Len(attempts) <= LongestPath(attempts[1], NumConfigs) + 1
          /\ \A i, j \in DOMAIN attempts : attempts[i] = attempts[j] => i = j)
  /\ (AcyclicRun ~> outcome.kind # "none")

\* A run that went through a longest path of two links and ended.
C7_Witness ==
  /\ AcyclicRun
  /\ LongestPath(attempts[1], NumConfigs) = 2
  /\ Len(attempts) = 3
  /\ outcome.kind # "none"

\* C8: at every moment, over all the attempts of a run and all the runs of
\* the review loop, at most one subprocess is running; an attempt is started
\* only when every subprocess spawned before has exited and been waited for,
\* and the loop calls the next run only when the previous one has returned or
\* raised.
C8_OneLiveSubprocess ==
  /\ Cardinality({i \in DOMAIN procs : procs[i].state = "running"}) <= 1
  /\ pc \in {"open", "spawn"} =>
       \A i \in DOMAIN procs : procs[i].state = "reaped"
  /\ loop_pc \in {"call", "done"} =>
       /\ pc = "idle"
       /\ \A i \in DOMAIN procs : procs[i].state = "reaped"
  /\ loop_pc = "call" /\ procs # <<>> => outcome.kind \in {"return", "timeout"}

\* The second round of the loop runs its second reviewer's fallback, after a
\* subprocess that had to be killed.
C8_Witness ==
  /\ cycle = 2
  /\ ridx = 2
  /\ Len(attempts) = 2
  /\ Len(procs) >= 5
  /\ procs[pid].state = "running"
  /\ \E i \in 1..(pid - 1) : procs[i].state = "reaped"
  /\ notice.kind = "timeout"

\* The counters a single update over the whole stream gives.
WholeStream ==
  UpdateProbeState(activity_probe[reviewers[1]], stream, InitProbeState)

\* C9: however a stream is cut into the chunks that successive updates of a
\* probe read, once all of it has been read the progress and final counts
\* are those of one update over the whole stream.
C9_ChunkingInvariance ==
  fed = Len(stream) =>
    /\ probe.progress_count = WholeStream.progress_count
    /\ probe.final_count = WholeStream.final_count

RECURSIVE NewlineLines(_, _)
\* The lines of a text, a line ending at each "\n".
NewlineLines(text, cur) ==
  IF text = <<>> THEN (IF cur = <<>> THEN <<>> ELSE <<cur>>)
  ELSE IF text[1] = "\n"
    THEN <<cur>> \o NewlineLines(Tail(text), <<>>)
    ELSE NewlineLines(Tail(text), Append(cur, text[1]))

\* The item.completed events of an agent's message that have a text, among
\* the JSON lines of a text.
MessageEvents(text) ==
  SelectSeq([i \in DOMAIN NewlineLines(text, <<>>) |->
               JsonLoads(Strip(NewlineLines(text, <<>>)[i]))],
            LAMBDA obj : /\ obj # NoObject
                         /\ obj.type = "item.completed"
                         /\ obj.item_is_dict
                         /\ obj.item_type \in {"agent_message", "assistant_message"}
                         /\ obj.text_is_str)

\* C10: from a captured output the Format A extractor returns the text of the
\* last item.completed event of an agent_message or assistant_message item
\* among its JSON lines (the last one that has a text), and the output itself
\* if it has no such event.
C10_FormatAExtraction ==
  (extracted # NoText /\ activity_probe[reviewers[1]] = "codex_json") =>
    LET raw == ReadText(stream)
        events == MessageEvents(raw)
    IN IF events = <<>> THEN extracted = raw
       ELSE extracted = events[Len(events)].text

\* The objects on the JSON lines of a text, a line ending at each "\n".
JsonEvents(text) ==
  SelectSeq([i \in DOMAIN NewlineLines(text, <<>>) |->
               JsonLoads(Strip(NewlineLines(text, <<>>)[i]))],
            LAMBDA obj : obj # NoObject)

\* The result-type events with a result string, and the assistant-type events
\* with a text-typed content block, among the events of a text.
ResultEvents(text) ==
  SelectSeq(JsonEvents(text),
            LAMBDA obj : obj.type = "result" /\ obj.result_is_str)
TextBlocks(obj) ==
  SelectSeq(obj.content,
            LAMBDA block : block.type = "text" /\ block.text_is_str)
AssistantEvents(text) ==
  SelectSeq(JsonEvents(text),
            LAMBDA obj : /\ obj.type = "assistant"
                         /\ obj.content_is_list
                         /\ TextBlocks(obj) # <<>>)

\* C11: from a captured output the Format B extractor returns the result
\* string of the last result event when there is one, wherever the assistant
\* events are; else the texts of the text-typed content blocks of the last
\* assistant event, joined in order; else the output itself.
C11_FormatBExtraction ==
  (extracted # NoText /\ activity_probe[reviewers[1]] = "claude_stream_json") =>
    LET raw == ReadText(stream)
        results == ResultEvents(raw)
        assistants == AssistantEvents(raw)
        blocks == TextBlocks(assistants[Len(assistants)])
    IN IF results # <<>> THEN extracted = results[Len(results)].result
       ELSE IF assistants # <<>>
         THEN extracted = Concat([i \in DOMAIN blocks |-> blocks[i].text])
       ELSE extracted = raw

\* The item.completed events of an agent's message.
IsMessage(obj) ==
  /\ obj.type = "item.completed"
  /\ obj.item_is_dict
  /\ obj.item_type \in {"agent_message", "assistant_message"}

\* C12: on an output of complete item.completed lines the probe's final count
\* is the number of agent_message and assistant_message events, its progress
\* count is the number of the other events, and the extractor returns the text
\* of the last message event when that text is a string.
C12_ProbeAndExtractorAgree ==
  (fed = Len(stream) /\ extracted # NoText) =>
    LET events == JsonEvents(ReadText(stream))
        messages == SelectSeq(events, IsMessage)
    IN /\ probe.final_count = Len(messages)
       /\ probe.progress_count = Len(events) - Len(messages)
       /\ (messages # <<>> /\ messages[Len(messages)].text_is_str)
            => extracted = messages[Len(messages)].text

\* Whether text has the letters of word somewhere, in either case.
HasWord(text, word) ==
  \E i \in 1..(Len(text) - Len(word) + 1) :
    \A j \in 1..Len(word) : LowerChar(text[i + j - 1]) = word[j]

\* The seven substrings looked for.
SevenPatterns ==
  { <<"r","a","t","e","_","l","i","m","i","t">>,
    <<"r","a","t","e"," ","l","i","m","i","t">>,
    <<"u","s","a","g","e","_","l","i","m","i","t">>,
    <<"u","s","a","g","e"," ","l","i","m","i","t">>,
    <<"4","2","9"," ","t","o","o"," ","m","a","n","y">>,
    <<"h","t","t","p"," ","4","2","9">>,
    <<"t","o","o"," ","m","a","n","y"," ","r","e","q","u","e","s","t","s">> }

\* C13: a rate limit is detected exactly when one of the seven substrings is
\* in the stdout or in the stderr, in whatever case; one stream having it is
\* enough (the two are joined by a newline, so none is found across them).
C13_RateLimitDetection ==
  (call_args.fn = "_is_rate_limit_error" /\ call_result.returned) =>
    (call_result.value <=>
       \E p \in SevenPatterns :
         HasWord(call_args.stdout, p) \/ HasWord(call_args.stderr, p))

\* Detected from a pattern in mixed case that only the stderr has.
C13_Witness ==
  /\ call_args.fn = "_is_rate_limit_error"
  /\ call_result = CallValue(TRUE)
  /\ call_args.stdout = <<"o", "k">>
  /\ call_args.stderr =
       <<"T", "o", "o", " ", "M", "a", "n", "y", " ", "R", "E", "Q", "U", "E", "S", "T", "S">>

\* The phase before phase n has a handoff file with a status that is not pass.
Blocked(root, n) ==
  /\ root[HandoffPath(n - 1)].exists
  /\ "status" \in root[HandoffPath(n - 1)].keys
  /\ root[HandoffPath(n - 1)].status # "pass"
GateMessage(n) ==
  CASE n = 2 -> "Phase 2 requires phase1_handoff status=pass"
    [] n = 3 -> "Phase 3 requires phase2_handoff status=pass"
    [] n = 4 -> "Phase 4 requires phase3_handoff status=pass"
PhaseName(n) ==
  CASE n = 1 -> "phase1" [] n = 2 -> "phase2" [] n = 3 -> "phase3"
    [] n = 4 -> "phase4" [] n = 5 -> "phase5"

\* Every file is there, every JSON file has its required keys, every handoff
\* has the status pass.
Complete(root) ==
  \A path \in Paths :
    /\ root[path].exists
    /\ Required(path) \subseteq root[path].keys
    /\ path \in HandoffPaths => root[path].status = "pass"

\* The preflight file reports eight GPUs and a known or null GL backend.
PreflightAsExpected(root) ==
  /\ root[PreflightPath].gpu_count = "8"
  /\ root[PreflightPath].mujoco_gl_effective \in {"egl", "glx", "None"}

\* validate_phase has returned errors and warnings for a phase it supports.
Validated ==
  /\ call_args.fn = "validate_phase"
  /\ call_result.returned

\* The gate of phases 2 to 4, and what strict adds.
GatedAndStrict ==
  LET errors == call_result.value.errors
      warnings == call_result.value.warnings
  IN /\ \A n \in 2..4 :
          (call_args.phase = PhaseName(n) /\ Blocked(call_args.root, n))
            => \E i \in DOMAIN errors : errors[i] = <<GateMessage(n)>>
     /\ call_args.strict =>
          \A j \in DOMAIN warnings :
            \E i \in DOMAIN errors : errors[i] = <<"strict-warning">> \o warnings[j]

OwnRateLimitFallback ==
  /\ rate_limit_fallback[self] # NoConfig
  /\ rate_limit_fallback[self] # fallback[self]

\* C15: the checks made after an attempt come in the order timeout, rate
\* limit, non-zero exit. An attempt that timed out is handled as a timeout
\* whatever its partial output holds (the fallback, or the failure raised).
\* An attempt that did not time out, whose output has a rate-limit pattern
\* and whose exit code is not zero, of a reviewer with a rate_limit_fallback
\* R other than its fallback F, is followed by exactly one more attempt, made
\* with R for the rate limit: this reviewer's run makes none with F.
C15_CheckOrder ==
  [][Dispatching
       => /\ exec_result.kind = "timeout"
               => \/ notice'.kind = "timeout" /\ Retried(fallback[self])
                  \/ outcome'.kind = "timeout" /\ attempts' = attempts
          /\ (RateLimited /\ exec_result.returncode # 0 /\ OwnRateLimitFallback)
               => /\ Retried(rate_limit_fallback[self])
                  /\ notice' = [kind |-> "rate_limit", from |-> self,
                                to |-> rate_limit_fallback[self]]
                  /\ attempts'[Len(attempts')] # fallback[self]
                  /\ Len(attempts') = Len(attempts) + 1]_vars

\* The first attempt printed a rate-limit message and exited with code 1;
\* reviewer 1 has a fallback and another reviewer as rate_limit_fallback, and
\* the second attempt is the latter's.
C15_Witness ==
  /\ Len(attempts) = 2
  /\ Len(procs) >= 1
  /\ procs[1].returncode = 1
  /\ notice = [kind |-> "rate_limit", from |-> 1, to |-> rate_limit_fallback[1]]
  /\ fallback[1] \notin {NoConfig, rate_limit_fallback[1]}
  /\ attempts = <<1, rate_limit_fallback[1]>>

\* Reviewer c and its fallback are each other's fallback.
CycleAB(c) ==
  /\ fallback[c] # NoConfig
  /\ fallback[fallback[c]] = c
\* Neither of the two has a rate_limit_fallback that leads elsewhere.
CycleOnly(c) ==
  /\ CycleAB(c)
  /\ rate_limit_fallback[c] \in {NoConfig, fallback[c]}
  /\ rate_limit_fallback[fallback[c]] \in {NoConfig, c}
\* The attempt just made timed out or exited with a non-zero code.
Failing ==
  \/ exec_result.kind = "timeout"
  \/ exec_result.kind = "ok" /\ exec_result.returncode # 0
\* The attempts made so far are alternately a's and its fallback's.
Alternating(a) ==
  \A i \in 1..Len(attempts) :
    attempts[i] = IF i % 2 = 1 THEN a ELSE fallback[a]
\* From the first attempt of reviewer c or of its fallback on, the attempts
\* in s are alternately the one's and the other's.
AlternatingFrom(s, c) ==
  \A i \in 1..(Len(s) - 1) :
    s[i] \in {c, fallback[c]} => s[i + 1] = fallback[s[i]]

\* C16 as stated: between two reviewers that are each other's fallback (and
\* have no other reviewer to fall back to), every attempt that fails (by a
\* timeout or a non-zero exit code) is followed by another attempt, the other
\* reviewer's, so that run never returns and never raises.
C16_NoCycleDetection ==
  [][(DispatchingAtAnyDepth /\ CycleOnly(self) /\ Failing)
       => /\ Retried(fallback[self])
          /\ outcome'.kind = "none"]_vars

\* C16, amended: between two reviewers that are each other's fallback and
\* have no rate_limit_fallback leading elsewhere, run never returns a text
\* after a failing attempt and there is no cycle detection: a failing
\* attempt is followed by another attempt of the other reviewer, attempted
\* before in the same call whenever this is not the first attempt, so that
\* the attempts alternate, until the calls of run by run are nested as deep
\* as the interpreter allows; the call of run refused there raises
\* RecursionError, which no run catches and the caller gets.
C16_NoCycleDetectionAmended ==
  [][(DispatchingAtAnyDepth /\ CycleOnly(self) /\ Failing)
       => /\ outcome'.kind \notin {"return", "timeout", "error"}
          /\ IF Len(attempts) < MaxAttempts
               THEN /\ Retried(fallback[self])
                    /\ AlternatingFrom(attempts', self)
                    /\ attempts[1] \in {self, fallback[self]}
                         => /\ Alternating(attempts[1])'
                            /\ Len(attempts) >= 2
                                 => \E i \in 1..Len(attempts) :
                                      attempts[i] = fallback[self]
               ELSE /\ outcome'.kind = "recursion"
                    /\ attempts' = attempts]_vars

\* Reviewers 1 and 2 were attempted in turn, each twice at least, every
\* attempt failing, until RecursionError was raised.
C16_Witness ==
  /\ CycleOnly(1)
  /\ Alternating(1)
  /\ Len(attempts) = MaxAttempts
  /\ Len(attempts) >= 4
  /\ Len(procs) = Len(attempts)
  /\ \A i \in 1..Len(procs) : procs[i].returncode # 0
  /\ outcome.kind = "recursion"
  /\ notice.to = 1

\* _execute reads the two log files back (lines 360-361).
ReadingBack ==
  /\ exec_result.kind = "none"
  /\ exec_result'.kind \in {"ok", "timeout"}

\* C17: however _execute leaves its loop (the subprocess exited, the
\* wall-clock limit or the stall limit was reached), it reads the two log
\* files back only once its three handles are closed and the subprocess has
\* exited and has been waited on, never while the subprocess is running; and
\* what it has read is then all there is in the files, nothing being written
\* to them afterwards.
C17_ReadBackAfterClose ==
  /\ [][ReadingBack
          => /\ handles = {}
             /\ ~Alive(procs[pid])
             /\ procs[pid].state = "reaped"
             /\ \A i \in DOMAIN procs : ~Alive(procs[i])]_vars
  /\ [](pc = "result" /\ exec_result.kind \in {"ok", "timeout"}
          => /\ exec_result.output = ReadText(stdout_file)
             /\ exec_result.stderr_output = ReadText(stderr_file)
             /\ handles = {}
             /\ ~Alive(procs[pid]))

\* The logs of a subprocess terminated at the wall-clock limit have been
\* read back, with something in the stdout log.
C17_Witness ==
  /\ pc = "result"
  /\ exec_result.kind = "timeout"
  /\ loc.site = "wall"
  /\ exec_result.output # <<>>
  /\ handles = {}
  /\ procs[pid].state = "reaped"
  /\ procs[pid].returncode \in {SIGTERM_RC, SIGKILL_RC}

\* One iteration of the polling loop takes its samples.
Sampling == pc = "sample" /\ pc' # "sample"
\* The four signals as they are when the samples are taken, against the
\* values recorded before.
SizeNow == Len(stdout_file) + Len(stderr_file)
CpuNow == procs[pid].cpu
CpuTreeNow == procs[pid].cpu + procs[pid].child_cpu
ProgressNow ==
  IF activity_probe[self] = "generic" THEN 0
  ELSE UpdateProbeState(activity_probe[self], stdout_file,
                        loc.probe_state).progress_count
SizeUp == SizeNow > loc.last_size
CpuUp == procfs /\ loc.last_cpu # None /\ CpuNow > loc.last_cpu
CpuTreeUp == procfs /\ loc.last_cpu_tree # None /\ CpuTreeNow > loc.last_cpu_tree
ProgressUp == ProgressNow > loc.last_progress_count
AnyUp == SizeUp \/ CpuUp \/ CpuTreeUp \/ ProgressUp

\* C18: in an iteration of the polling loop that takes its samples, the
\* last-activity timestamp becomes the current time if one at least of the
\* combined size of the logs, the CPU time of the process, the CPU time of
\* its tree and the probe's progress count is greater than the value
\* recorded for it, and is left as it was if none is; the values recorded are
\* then the current ones, so that the timestamp is the time of the last
\* sample at which one of the four had grown.  The stall limit fires only in
\* an iteration where none of the four has grown and the timestamp is
\* stall_timeout old at least; a growth of any one of them puts it off.
C18_StallClock ==
  [][Sampling
       => /\ AnyUp => loc'.last_activity = clock
          /\ ~AnyUp => loc'.last_activity = loc.last_activity
          /\ loc'.last_activity = clock <=> AnyUp
          /\ loc'.last_size = SizeNow
          /\ procfs => loc'.last_cpu = CpuNow /\ loc'.last_cpu_tree = CpuTreeNow
          /\ loc'.last_progress_count = ProgressNow
          /\ pc' = "terminate"
               <=> /\ stall_timeout > 0
                   /\ ~AnyUp
                   /\ clock - loc.last_activity >= stall_timeout]_vars

\* CPU time alone has put the stall limit off: the subprocess has written
\* nothing, the limit has passed since the start, and the loop goes on after
\* an iteration that moved the timestamp.
C18_Witness ==
  /\ pc = "poll"
  /\ Alive(procs[pid])
  /\ stall_timeout > 0
  /\ clock >= stall_timeout
  /\ loc.now = clock
  /\ loc.last_activity = clock
  /\ loc.last_size = 0
  /\ loc.last_progress_count = 0
  /\ loc.last_cpu > 0

\* The probe of a format has classified an object.
Classified(format) ==
  /\ call_args.fn = "_extract_probe_event"
  /\ call_args.activity_probe = format
  /\ call_result.returned
\* The nested item type, if there is one.
NestedItemType(obj) == IF obj.item_is_dict THEN obj.item_type ELSE Absent

\* What C19 says of an object.
FormatAKind(obj) ==
  IF obj.type \in {"thread.started", "turn.started", "item.started"}
    THEN "progress"
  ELSE IF obj.type \in {"turn.completed", "thread.completed", "error",
                        "turn.failed"}
    THEN "final"
  ELSE IF obj.type = "item.completed"
    THEN IF NestedItemType(obj) \in {"agent_message", "assistant_message"}
           THEN "final" ELSE "progress"
  ELSE "progress"

\* C19 as stated: the Format A probe gives every object whose type is a
\* string the kind FormatAKind says.
C19_FormatAClassification ==
  (Classified("codex_json") /\ call_args.obj.type # Absent)
    => call_result.value[1] = FormatAKind(call_args.obj)

\* C19, amended: the Format A probe gives every object whose type is a string
\* that is not empty the kind FormatAKind says: progress for thread.started,
\* turn.started and item.started, final for turn.completed, thread.completed,
\* error and turn.failed, for item.completed final when the nested item type
\* is agent_message or assistant_message and progress when it is another or
\* is missing, and progress for every other type.
C19_FormatAClassificationAmended ==
  (Classified("codex_json") /\ ~Missing(call_args.obj.type))
    => call_result.value[1] = FormatAKind(call_args.obj)

\* An item.completed with a nested assistant_message was classified as final.
C19_Witness ==
  /\ Classified("codex_json")
  /\ call_args.obj.type = "item.completed"
  /\ NestedItemType(call_args.obj) = "assistant_message"
  /\ call_result.value = <<"final", "item.assistant_message">>

\* What C20 says of an object.
FormatBKind(obj) ==
  IF obj.type \in {"result", "assistant"} THEN "final"
  ELSE IF obj.type = "system" THEN "progress"
  ELSE IF obj.type = "stream_event"
    THEN IF obj.event_type = "message_stop" THEN "final" ELSE "progress"
  ELSE "progress"

\* The characters cs start with the characters ps.
StartsWith(cs, ps) == Len(cs) >= Len(ps) /\ SubSeq(cs, 1, Len(ps)) = ps

\* The label is "system." and the subtype, with each run of whitespace in it
\* as one space: the whole of it but for whitespace at its end, or as much of
\* it as the 80 characters of a label take.
SubtypeInLabel(label, subtype) ==
  LET l == Chars(label)
      norm == CollapseWhitespace(Chars(subtype))
      rest == SubSeq(l, 8, Len(l))
  IN /\ StartsWith(l, Chars("system."))
     /\ Len(l) <= 80
     /\ StartsWith(norm, rest)
     /\ rest = RStrip(norm) \/ Len(l) = 80

\* The label of a system event.
SystemLabel(label, subtype) ==
  IF subtype = Absent \/ subtype = ""
    THEN label = "system"
    ELSE SubtypeInLabel(label, subtype)

\* C20 as stated: the Format B probe gives every object whose type is a
\* string the kind FormatBKind says, and a system event a label with the
\* subtype in it when there is one.
C20_FormatBClassification ==
  (Classified("claude_stream_json") /\ call_args.obj.type # Absent)
    => /\ call_result.value[1] = FormatBKind(call_args.obj)
       /\ call_args.obj.type = "system"
            => SystemLabel(call_result.value[2], call_args.obj.subtype)

\* C20, amended: the Format B probe gives every object whose type is a string
\* that is not empty the kind FormatBKind says: final for result and
\* assistant, progress for system, for stream_event final when the nested
\* event type is message_stop and progress when it is another or is missing,
\* and progress for every other type; the label of a system event is "system"
\* without a subtype and has the subtype in it with one.
C20_FormatBClassificationAmended ==
  (Classified("claude_stream_json") /\ ~Missing(call_args.obj.type))
    => /\ call_result.value[1] = FormatBKind(call_args.obj)
       /\ call_args.obj.type = "system"
            => SystemLabel(call_result.value[2], call_args.obj.subtype)

\* A system event whose subtype is longer than a label was classified as
\* progress, with a label of 80 characters.
C20_Witness ==
  /\ Classified("claude_stream_json")
  /\ call_args.obj.type = "system"
  /\ Len(call_args.obj.subtype) > 80
  /\ call_result.value[1] = "progress"
  /\ Len(call_result.value[2]) = 80

\* A line has been given to a probe.
LineProbed ==
  /\ call_args.fn = "_update_probe_state.line"
  /\ call_result.returned
\* What the probe makes of the line: the event of the object it parses to,
\* if it starts with "{" and parses.
LineEvent ==
  LET line == Strip(call_args.raw_line)
  IN IF line = <<>> \/ line[1] # "{" \/ JsonLoadsRaises(line) THEN NoEvent
     ELSE IF JsonLoads(line) = NoObject THEN NoEvent
     ELSE ExtractProbeEvent(call_args.activity_probe, JsonLoads(line))
\* The counters and labels of the state a line was given with, and after it.
Before == call_args.state
After == call_result.value.state

\* The line changes neither a counter nor a label.
LineSkipped ==
  /\ After.progress_count = Before.progress_count
  /\ After.final_count = Before.final_count
  /\ After.last_progress = Before.last_progress
  /\ After.last_final = Before.last_final

\* What a line does to the counters and the labels, whatever it is.
LineEffect ==
  /\ LineEvent[1] = "progress"
       => /\ After.progress_count = Before.progress_count + 1
          /\ After.last_progress = LineEvent[2]
          /\ After.final_count = Before.final_count
          /\ After.last_final = Before.last_final
  /\ LineEvent[1] = "final"
       => /\ After.final_count = Before.final_count + 1
          /\ After.last_final = LineEvent[2]
          /\ After.progress_count = Before.progress_count
          /\ After.last_progress = Before.last_progress
  /\ LineEvent = NoEvent => LineSkipped
  /\ After.offset >= Before.offset
  /\ After.progress_count >= Before.progress_count
  /\ After.final_count >= Before.final_count

\* C21: a line classified as progress adds one to progress_count and
\* replaces last_progress, leaving final_count and last_final as they were,
\* and a final line does the same to the other pair; a line that does not
\* begin with "{", does not parse, or is no object a probe classifies
\* changes no counter and no label and raises nothing; the offset and the two
\* counters never decrease.
C21_LineTransition ==
  LineProbed => ~call_result.value.raised /\ LineEffect

\* The effects alone, which hold of every line, the one that raises included.
LineEffectAlways == LineProbed => LineEffect

\* _terminate_process is at work, and returns.
Terminating == pc \in {"terminate", "sigterm", "grace", "sigkill", "killed"}
TerminateReturns == Terminating /\ pc' = "finally"
\* A signal is sent to the subprocess.
SigtermSent ==
  pid >= 1 /\ pid' = pid /\ procs'[pid].sigterm /\ ~procs[pid].sigterm
SigkillSent ==
  pid >= 1 /\ pid' = pid /\ procs'[pid].sigkill /\ ~procs[pid].sigkill

\* C22: SIGKILL is sent only to a subprocess that was sent SIGTERM before and
\* is still alive when the grace period of 5 seconds has passed since
\* _terminate_process was called; no signal is sent to a subprocess that has
\* exited; and when _terminate_process returns the subprocess has exited and
\* has been waited on.
C22_TwoPhaseTermination ==
  /\ [][SigkillSent
          => /\ procs[pid].sigterm
             /\ Alive(procs[pid])
             /\ clock - loc.now >= TERMINATE_GRACE]_vars
  /\ [][SigtermSent => Alive(procs[pid]) /\ ~procs[pid].sigkill]_vars
  /\ [][TerminateReturns
          => /\ ~Alive(procs'[pid])
             /\ procs'[pid].state = "reaped"
             /\ procs'[pid].returncode # None]_vars

\* A subprocess that did not die of SIGTERM within the grace period was
\* killed and waited on at the stall limit.
C22_Witness ==
  /\ pc = "finally"
  /\ loc.timed_out
  /\ loc.site = "stall"
  /\ procs[pid].state = "reaped"
  /\ procs[pid].returncode = SIGKILL_RC
  /\ clock = loc.now + TERMINATE_GRACE

\* The final count of the probe as it is when the samples are taken.
FinalNow ==
  IF activity_probe[self] = "generic" THEN None
  ELSE UpdateProbeState(activity_probe[self], stdout_file,
                        loc.probe_state).final_count
\* The iteration prints a heartbeat.
HeartbeatEmitted == Sampling /\ heartbeat' # heartbeat

\* C23: in an iteration of the polling loop the samples are taken first: a
\* heartbeat printed in the iteration is due at the time read after them and
\* shows the size of the logs, the probe's counters and the idle time as the
\* samples of this iteration make them, and the stall limit is compared with
\* the last-activity timestamp as this iteration left it, so that a growth
\* seen in the iteration shows in the heartbeat and rules the stall out.
C23_SampleBeforeUse ==
  /\ [][HeartbeatEmitted
          => /\ loc.next_heartbeat # None /\ clock >= loc.next_heartbeat
             /\ heartbeat'.at = clock
             /\ heartbeat'.output = SizeNow
             /\ heartbeat'.idle = IF AnyUp THEN 0 ELSE clock - loc.last_activity
             /\ heartbeat'.progress_events =
                  IF activity_probe[self] = "generic" THEN None ELSE ProgressNow
             /\ heartbeat'.final_events = FinalNow]_vars
  /\ [][(Sampling /\ pc' = "terminate")
          => /\ ~AnyUp
             /\ loc'.now = clock
             /\ loc'.now - loc'.last_activity >= stall_timeout]_vars
  /\ [][(Sampling /\ AnyUp /\ stall_timeout > 0) => pc' = "poll"]_vars

\* A heartbeat shows output and a progress event that the iteration printing
\* it was the first to see.
C23_Witness ==
  /\ pc = "poll"
  /\ heartbeat # NoHeartbeat
  /\ heartbeat.at = clock
  /\ heartbeat.idle = 0
  /\ heartbeat.output > 0
  /\ heartbeat.progress_events = 1
  /\ loc.last_activity = clock

\* The polling loop computes the time of the next wait.
Sleeping == pc = "poll" /\ pc' = "wait"
\* What bounds the wait, read at line 223: what is left of the wall-clock
\* budget, the time until the next heartbeat, and the poll interval.
RemainingBudget ==
  IF loc.deadline = None THEN {} ELSE {loc.deadline - clock}
UntilHeartbeat ==
  IF loc.next_heartbeat = None THEN {} ELSE {loc.next_heartbeat - clock}
UntilHeartbeatFloored == {Max(HEARTBEAT_MIN_SLEEP, u) : u \in UntilHeartbeat}
Least(S) == CHOOSE x \in S : \A y \in S : x <= y
\* The wait is not longer than the poll interval or than the budget left,
\* and ends with no time passed if the subprocess has exited.
WaitBounded ==
  /\ [][Sleeping => /\ loc'.sleep_time <= POLL_INTERVAL
                    /\ \A r \in RemainingBudget : loc'.sleep_time <= r]_vars
  /\ [][(pc = "wait" /\ ~Alive(procs[pid]))
          => (pc' = "finally" /\ clock' = clock)]_vars
  /\ [][(pc = "wait" /\ pc' = "sample") => clock' = clock + loc.sleep_time]_vars

\* C24: the time the polling loop waits is the least of what is left of the
\* wall-clock budget (if there is one), the time until the next heartbeat
\* (if there are heartbeats) and the poll interval of 5 seconds; so it is
\* never longer than 5 seconds or than the budget left, and the wait ends at
\* once if the subprocess exits.
C24_WaitIsMinimum ==
  /\ [][Sleeping
          => loc'.sleep_time =
               Least(RemainingBudget \cup UntilHeartbeat \cup {POLL_INTERVAL})]_vars
  /\ WaitBounded

\* C24 as it holds: the time until the next heartbeat counts as a tenth of a
\* second when it is shorter than that.
C24_WaitIsMinimumAmended ==
  /\ [][Sleeping
          => loc'.sleep_time =
               Least(RemainingBudget \cup UntilHeartbeatFloored
                       \cup {POLL_INTERVAL})]_vars
  /\ WaitBounded

\* The loop waits a tenth of a second for a heartbeat that is already due,
\* with more than that left of the wall-clock budget.
C24_Witness ==
  /\ pc = "wait"
  /\ loc.next_heartbeat # None
  /\ loc.next_heartbeat - loc.now < HEARTBEAT_MIN_SLEEP
  /\ loc.sleep_time = HEARTBEAT_MIN_SLEEP
  /\ loc.deadline # None
  /\ loc.deadline - loc.now > HEARTBEAT_MIN_SLEEP

\* The attempt ends in a timeout failure.
TimeoutRaised == pc = "read" /\ pc' = "result" /\ exec_result'.kind = "timeout"
\* The wall-clock limit is configured and reached; the stall limit likewise.
WallLimitReached ==
  timeout > 0 /\ loc.deadline # None /\ clock >= loc.deadline
StallLimitReached ==
  stall_timeout > 0 /\ clock - loc.last_activity >= stall_timeout

\* C25: a timeout failure carries the limit that ended the attempt: the stall
\* limit if the stall check terminated the subprocess, the wall-clock limit
\* if the deadline check did; the limit carried is configured and was reached
\* when the subprocess was terminated.
C25_RecordedLimit ==
  /\ [][(pc = "terminate" /\ pc' # "terminate")
          => /\ loc.site \in {"wall", "stall"}
             /\ loc.site = "wall" => WallLimitReached
             /\ loc.site = "stall" => StallLimitReached]_vars
  /\ [][TimeoutRaised
          => /\ loc.timed_out
             /\ loc.site = "wall"
                  => exec_result'.timeout_value = timeout /\ WallLimitReached
             /\ loc.site = "stall"
                  => exec_result'.timeout_value = stall_timeout
                     /\ StallLimitReached]_vars

\* A stall timeout is raised with both limits configured and the wall-clock
\* limit not reached.
C25_Witness ==
  /\ pc = "result"
  /\ exec_result.kind = "timeout"
  /\ loc.site = "stall"
  /\ timeout > 0
  /\ exec_result.timeout_value = stall_timeout
  /\ exec_result.timeout_value # timeout
  /\ clock < loc.deadline

\* The step after which the attempt counts as timed out.
TimedOutSet == ~loc.timed_out /\ loc'.timed_out
\* _terminate_process has sent the subprocess a signal: SIGKILL was due (the
\* subprocess outlived SIGTERM and the grace period), or the subprocess that
\* the grace-period wait finds exited has SIGTERM on it.  (A subprocess found
\* exited by the poll of line 736, or by the poll inside proc.terminate(), is
\* reaped without a signal.)
SignalSent == pc = "killed" \/ (pc = "grace" /\ procs[pid].sigterm)

\* C26: an attempt counts as timed out only if the supervisor has sent a
\* termination signal to its subprocess: a subprocess that exits by itself
\* before any signal is sent is reported with its exit code, whenever the
\* exit falls between the steps of the polling loop.
C26_TimeoutOnlyIfTerminated ==
  /\ [][TimedOutSet => SignalSent]_vars
  /\ [][TimeoutRaised => loc.timed_out]_vars

\* run has ended: it has returned or raised.
RunEnded == outcome.kind # "none"

\* C27: the reviewer resolve_reviewers makes from a preset key has fallbacks
\* that have no fallback of either kind, so no reviewer is reached from its
\* own fallbacks (the rate-limit table sends cursor-opus and cursor-gpt to
\* each other), and a run makes at most two attempts; with no_fallback it
\* makes one.
C27_PresetFallbackDepth ==
  /\ [](\A c \in Successors(PresetReviewer) : Successors(c) = {})
  /\ [](Acyclic(PresetReviewer))
  /\ [](Len(attempts) <= 2)
  /\ [](call_args.no_fallback => Successors(PresetReviewer) = {})
  /\ []((call_args.no_fallback /\ RunEnded) => Len(attempts) = 1)

\* The cursor-opus preset is rate-limited, and so is the cursor-gpt reviewer
\* made for its rate-limit fallback, whose attempt ends the run.
C27_Witness ==
  /\ call_args.preset_key = "cursor-opus"
  /\ attempts = <<PresetReviewer, RateLimitFallbackReviewer>>
  /\ notice.kind = "rate_limit"
  /\ RunEnded
  /\ outcome.kind = "return"
  /\ IsRateLimitError(outcome.text, <<>>)

\* run returns a text.
Returning == outcome.kind = "none" /\ outcome'.kind = "return"
\* The reviewer that made the last attempt.
LastAttempt == attempts[Len(attempts)]

\* C28: the text run returns is extracted from the stdout log of the last
\* attempt, as the activity probe of the reviewer that made that attempt
\* extracts it, whatever the probe of the reviewer run was first called on
\* and whatever the attempts before have written.
C28_TextOfLastAttempt ==
  [][Returning
      => /\ self = LastAttempt
         /\ attempts' = attempts
         /\ outcome'.text =
              ExtractReviewerOutput(activity_probe[LastAttempt],
                                    ReadText(stdout_file))]_vars

\* run has returned the text of a fallback's attempt, which the probe of the
\* reviewer run was called on would have extracted otherwise.
C28_Witness ==
  /\ outcome.kind = "return"
  /\ Len(attempts) >= 2
  /\ activity_probe[attempts[1]] # activity_probe[LastAttempt]
  /\ outcome.text # ReadText(stdout_file)
  /\ outcome.text #
       ExtractReviewerOutput(activity_probe[attempts[1]], ReadText(stdout_file))

\* The reviewer of the attempt just made has a fallback of some kind.
AnyFallback == rate_limit_fallback[self] # NoConfig \/ fallback[self] # NoConfig

\* C29: the rate-limit check does not look at the exit code: an attempt that
\* exited with code 0 and has a rate-limit pattern in its stdout or stderr,
\* of a reviewer with a rate_limit_fallback or a fallback, is followed by the
\* attempt of that reviewer and its own output is not returned; and run
\* returns the text of the attempt just made only if the attempt did not
\* time out, had no rate-limit pattern or the reviewer no fallback of either
\* kind, and exited with code 0 or the reviewer has no fallback.
C29_RateLimitAnyExitCode ==
  [][Dispatching
      => /\ (RateLimited /\ exec_result.returncode = 0 /\ AnyFallback)
              => /\ Retried(IF rate_limit_fallback[self] # NoConfig
                              THEN rate_limit_fallback[self] ELSE fallback[self])
                 /\ notice'.kind = "rate_limit"
                 /\ exec_result' = NoResult
         /\ outcome'.kind = "return"
              => /\ exec_result.kind = "ok"
                 /\ ~RateLimited \/ ~AnyFallback
                 /\ exec_result.returncode = 0 \/ fallback[self] = NoConfig]_vars

\* The first attempt exited with code 0 with a rate-limit message in its
\* stdout; run goes on for the rate limit with the reviewer's fallback, the
\* output of the first attempt not returned.
C29_Witness ==
  /\ attempts = <<1, fallback[1]>>
  /\ rate_limit_fallback[1] = NoConfig
  /\ Len(procs) = 1
  /\ procs[1].returncode = 0
  /\ IsRateLimitError(ReadText(stdout_file), <<>>)
  /\ notice = [kind |-> "rate_limit", from |-> 1, to |-> fallback[1]]
  /\ pc = "open"
  /\ outcome.kind = "none"

\* Popen raises: no subprocess is spawned.
SpawnFailed == pc = "spawn" /\ pc' # "poll" /\ pc' # "spawn"
\* The attempt whose command could not be spawned is on its way out of
\* _execute and run.
SpawnError == exec_result.kind = "error"

\* C30: when the subprocess cannot be spawned, _execute closes the three
\* handles and does nothing else: no polling, no wait, no read-back; what
\* Popen raised leaves run as it is, as no timeout failure, and run makes no
\* attempt with a fallback.
C30_SpawnFailure ==
  /\ [][SpawnFailed
          => /\ pc' = "finally"
             /\ SpawnError'
             /\ procs' = procs
             /\ handles' = handles]_vars
  /\ [][(SpawnError /\ pc = "finally")
          => /\ handles' = {}
             /\ pc' = "result"
             /\ exec_result' = exec_result
             /\ procs' = procs]_vars
  /\ [](SpawnError => pc \in {"finally", "result"})
  /\ [][(SpawnError /\ DispatchingAtAnyDepth)
          => /\ handles = {}
             /\ outcome'.kind = "error"
             /\ pc' = "idle"
             /\ attempts' = attempts
             /\ self' = self
             /\ procs' = procs
             /\ notice' = notice]_vars

\* The command of a reviewer that has a fallback and a rate_limit_fallback
\* could not be spawned: run has raised after one attempt, no subprocess
\* spawned and no handle open.
C30_Witness ==
  /\ outcome.kind = "error"
  /\ pc = "idle"
  /\ attempts = <<1>>
  /\ fallback[1] # NoConfig
  /\ rate_limit_fallback[1] # NoConfig
  /\ procs = <<>>
  /\ handles = {}
==========================================================================
